---------------------------- MODULE Spec2Model ----------------------------
(***************************************************************************)
(* ZenCache: the in-memory cache engine of src/src/cache.ts (the version   *)
(* with memory accounting, lines 203-469), its size estimator              *)
(* src/src/utils/memory.ts and the TCP server of src/src/server.ts.        *)
(*                                                                         *)
(* Strings are sequences of one-character strings, so that lengths, byte   *)
(* sizes and pattern matching are computed.                                *)
(* A JavaScript `undefined` is the empty tuple, a defined optional number  *)
(* n is <<n>>.  The field createdAt of a CacheItem is written by set and   *)
(* read by nothing; it is left out of the items.                           *)
(***************************************************************************)
EXTENDS Integers, Sequences, FiniteSets, TLC

VARIABLES
    store,               \* Map<string, CacheItem>, in the Map's iteration order
    hits,                \* this.hits
    misses,              \* this.misses
    currentMemoryBytes,  \* this.currentMemoryBytes
    maxMemoryBytes,      \* this.maxMemoryBytes
    cleanupInterval,     \* TRUE while the setInterval timer is armed
    now,                 \* Date.now()
    last,                \* the last call made on the engine and what it returned
    connState,           \* per connection: "awaiting", "open" or "closed"
    buffer,              \* per connection: the variable buffer of onConnection
    out,                 \* per connection: the lines written to the socket
    handler,             \* the connection whose 'data' callback is running, or None
    inp,                 \* per connection: the bytes received so far
    ran,                 \* the calls of onData so far: <<connection, raw>>
    server               \* the net.Server: "listening", "closing" once stop()
                         \* has called close, "stopped" once its callback ran

engineVars == <<store, hits, misses, currentMemoryBytes, maxMemoryBytes,
                cleanupInterval, now, last>>

srvVars == <<connState, buffer, out, handler, inp, ran, server>>

vars == <<store, hits, misses, currentMemoryBytes, maxMemoryBytes,
          cleanupInterval, now, last,
          connState, buffer, out, handler, inp, ran, server>>

-----------------------------------------------------------------------------
(* Bounds of the model *)

\* the memory budget maxMemoryBytes of the modelled engine (a configuration
\* value, cache.ts:219), small enough for admission control to reject
MaxBytes == 215

\* the memory budget of an engine configured with room for a third entry
RoomyBytes == 320

\* Date.now() advances from StartTime by at most MaxTicks milliseconds
MaxTicks == 2

\* number of get calls explored (hits + misses)
MaxGets == 2

\* Date.now() at construction
StartTime == 1

\* number of lines the clients of a server send, over all connections
MaxLines == 2

\* number of bytes a connection receives where the framing is explored
MaxStream == 5

\* the hits, and the misses, that an engine has counted when getStats is
\* applied to it in SpecStats
MaxCount == 3

-----------------------------------------------------------------------------
(* Values *)

Undefined == <<>>

Some(n) == <<n>>

Str(s) == [t |-> "string", s |-> s]

Num(n) == [t |-> "number", n |-> n]

Bool(b) == [t |-> "boolean", b |-> b]

Null == [t |-> "null"]

\* a JSON array, as the sequence of its elements
Arr(a) == [t |-> "array", a |-> a]

\* the value undefined where it is handed on as a value
UndefinedValue == [t |-> "undefined"]

\* the Map key undefined, which set, get, delete and exists receive when the
\* command has no key field; every other key of the model is a string, the
\* sequence of its characters
UndefinedKey == <<"(undefined)">>

\* a Map key as a value
KeyValue(key) == IF key = UndefinedKey THEN UndefinedValue ELSE Str(key)

Keys == { <<"u", ":", "1">>, <<"u", ":", "2">> }

\* the connections a server is given, and the value of handler when no 'data'
\* callback is running
Conns == {"A", "B"}

None == "none"

Values == { Str(<<"a">>), Num(10) }

\* options.ttl as passed to set: absent, or a number of milliseconds
TTLs == { Undefined, Some(1), Some(2) }

\* patterns passed to keys(); the empty pattern is the call without pattern
Patterns == { <<>>, <<"u", ":", "*">>, <<"*", ":", "1">>, <<"x", "*">>,
              <<"u", ".", "1">> }

-----------------------------------------------------------------------------
(* Size estimator: src/src/utils/memory.ts *)

\* the UTF-8 length of one character: two bytes for U+00E9, three for the
\* replacement character U+FFFD, one for an ASCII character
CharBytes(ch) == IF ch = "U+00E9" THEN 2 ELSE IF ch = "U+FFFD" THEN 3 ELSE 1

RECURSIVE Utf8ByteLength(_)
\* Buffer.byteLength(s, 'utf8')
Utf8ByteLength(s) ==
    IF s = <<>> THEN 0 ELSE CharBytes(Head(s)) + Utf8ByteLength(Tail(s))

\* JSON.stringify of null is the four characters n,u,l,l
JsonNull == <<"n", "u", "l", "l">>

\* JSON.stringify(undefined) is undefined, Buffer.byteLength of it throws,
\* and the catch returns 0
getByteSize(value) ==
    IF value.t = "string" THEN Utf8ByteLength(value.s)
    ELSE IF value.t = "number" THEN 8
    ELSE IF value.t = "boolean" THEN 1
    ELSE IF value.t = "undefined" THEN 0
    ELSE Utf8ByteLength(JsonNull)

\* the Map entry overhead added to every item's size
ENTRY_OVERHEAD == 100

\* itemSize as computed in wouldExceedMemoryLimit and updateMemoryUsage
itemSize(key, value) ==
    getByteSize(KeyValue(key)) + getByteSize(value) + ENTRY_OVERHEAD

-----------------------------------------------------------------------------
(* The JavaScript Map holding the store, as the sequence of its entries *)

MapIndex(m, key) ==
    IF \E i \in 1..Len(m) : m[i].key = key
    THEN CHOOSE i \in 1..Len(m) : m[i].key = key
    ELSE 0

MapHas(m, key) == MapIndex(m, key) # 0

MapGet(m, key) == m[MapIndex(m, key)]

\* mutant of MapSet: a key that is set moves to the end of the iteration
\* order
MapSet_MovesToEnd(m, key, item) ==
    LET e == [key |-> key, value |-> item.value, expiresAt |-> item.expiresAt]
        rest == SelectSeq(m, LAMBDA x : x.key # key)
    IN  Append(rest, e)

\* Map.prototype.set: an existing key keeps its position, a new key is appended
MapSet(m, key, item) ==
    LET e == [key |-> key, value |-> item.value, expiresAt |-> item.expiresAt]
    IN  IF MapHas(m, key)
        THEN [m EXCEPT ![MapIndex(m, key)] = e]
        ELSE Append(m, e)

\* Map.prototype.delete
MapDelete(m, key) ==
    LET i == MapIndex(m, key)
    IN  IF i = 0 THEN m
        ELSE SubSeq(m, 1, i - 1) \o SubSeq(m, i + 1, Len(m))

\* Array.from(map.keys())
MapKeys(m) == [i \in 1..Len(m) |-> m[i].key]

-----------------------------------------------------------------------------
(* Pattern matching of keys(): new RegExp(pattern.replace(/\*/g, '.*')) *)

RECURSIVE ReplaceStars(_)
\* pattern.replace(/\*/g, '.*'): the source text of the regular expression
ReplaceStars(p) ==
    IF p = <<>> THEN <<>>
    ELSE (IF Head(p) = "*" THEN <<".", "*">> ELSE <<Head(p)>>)
         \o ReplaceStars(Tail(p))

\* one regular-expression atom against one character: '.' is any character
AtomMatches(a, c) == a = "." \/ a = c

RECURSIVE RegexMatchHere(_, _, _, _)
\* does the expression re, from its position i, match a prefix of s[j..]?
\* (atoms are single characters, each optionally followed by the '*' quantifier)
RegexMatchHere(re, i, s, j) ==
    IF i > Len(re) THEN TRUE
    ELSE IF i + 1 <= Len(re) /\ re[i + 1] = "*"
    THEN \E n \in 0..(Len(s) - j + 1) :
            /\ \A x \in j..(j + n - 1) : AtomMatches(re[i], s[x])
            /\ RegexMatchHere(re, i + 2, s, j + n)
    ELSE /\ j <= Len(s)
         /\ AtomMatches(re[i], s[j])
         /\ RegexMatchHere(re, i + 1, s, j + 1)

\* regex.test(key): an unanchored search
RegexTest(re, key) ==
    \E j \in 1..(Len(key) + 1) : RegexMatchHere(re, 1, key, j)

\* new RegExp(re) compiles, for the expressions of the model: every group
\* that is opened is closed; a SyntaxError is thrown otherwise
RegExpCompiles(re) ==
    LET depth[i \in 0..Len(re)] ==
            IF i = 0 THEN 0
            ELSE IF depth[i - 1] < 0 THEN -1
            ELSE IF re[i] = "(" THEN depth[i - 1] + 1
            ELSE IF re[i] = ")" THEN depth[i - 1] - 1
            ELSE depth[i - 1]
    IN  depth[Len(re)] = 0

\* Array.prototype.filter
RECURSIVE Filter(_, _)
Filter(s, re) ==
    IF s = <<>> THEN <<>>
    ELSE (IF RegexTest(re, Head(s)) THEN <<Head(s)>> ELSE <<>>)
         \o Filter(Tail(s), re)

-----------------------------------------------------------------------------
(* The engine: src/src/cache.ts, class ZenCache (lines 206-469) *)

\* mutant of IsExpired: an undefined expiresAt read as timestamp 0
IsExpired_UndefinedIsZero(item, t) ==
    t > (IF item.expiresAt = Undefined THEN 0 ELSE item.expiresAt[1])

\* mutant of IsExpired: the item counts as expired at its expiry instant
IsExpired_AtInstant(item, t) ==
    /\ item.expiresAt # Undefined
    /\ item.expiresAt[1] # 0
    /\ t >= item.expiresAt[1]

\* `item.expiresAt && now > item.expiresAt`: undefined and 0 are falsy
IsExpired(item, t) ==
    /\ item.expiresAt # Undefined
    /\ item.expiresAt[1] # 0
    /\ t > item.expiresAt[1]

\* mutant of wouldExceedMemoryLimit: the old charge of the key is credited
\* before the comparison
wouldExceedMemoryLimit_CreditsOld(key, value) ==
    LET old == IF \E i \in 1..Len(store) : store[i].key = key
               THEN LET j == CHOOSE i \in 1..Len(store) : store[i].key = key
                    IN  getByteSize(KeyValue(key)) + getByteSize(store[j].value)
                            + 100
               ELSE 0
    IN  (currentMemoryBytes - old + getByteSize(KeyValue(key))
             + getByteSize(value) + 100) > maxMemoryBytes

\* mutant of wouldExceedMemoryLimit: the candidate is sized by its value alone
wouldExceedMemoryLimit_ValueOnly(key, value) ==
    (currentMemoryBytes + getByteSize(value)) > maxMemoryBytes

wouldExceedMemoryLimit(key, value) ==
    (currentMemoryBytes + itemSize(key, value)) > maxMemoryBytes

\* mutant of updateMemoryUsage: a removal releases nothing
updateMemoryUsage_AddOnly(bytes, key, value, isAdding) ==
    IF isAdding THEN bytes + itemSize(key, value) ELSE bytes

\* mutant of updateMemoryUsage: a removal releases the item without its overhead
updateMemoryUsage_NoOverheadOnRemove(bytes, key, value, isAdding) ==
    IF isAdding
    THEN bytes + itemSize(key, value)
    ELSE IF bytes - (itemSize(key, value) - ENTRY_OVERHEAD) > 0
         THEN bytes - (itemSize(key, value) - ENTRY_OVERHEAD) ELSE 0

\* mutant of updateMemoryUsage: a removal releases the overhead twice
updateMemoryUsage_OverheadTwice(bytes, key, value, isAdding) ==
    IF isAdding
    THEN bytes + itemSize(key, value)
    ELSE IF bytes - (itemSize(key, value) + ENTRY_OVERHEAD) > 0
         THEN bytes - (itemSize(key, value) + ENTRY_OVERHEAD) ELSE 0

\* the value of currentMemoryBytes after updateMemoryUsage(key, value, isAdding)
updateMemoryUsage(bytes, key, value, isAdding) ==
    IF isAdding
    THEN bytes + itemSize(key, value)
    ELSE IF bytes - itemSize(key, value) > 0
         THEN bytes - itemSize(key, value) ELSE 0

\* mutant of ExpiresAt: the ttl stored as if it were the expiry timestamp
ExpiresAt_TtlAsTimestamp(ttl, t) ==
    IF ttl # Undefined /\ ttl[1] # 0 THEN Some(ttl[1]) ELSE Undefined

\* `options?.ttl ? now + options.ttl : undefined`: undefined and 0 are falsy
ExpiresAt(ttl, t) ==
    IF ttl # Undefined /\ ttl[1] # 0 THEN Some(t + ttl[1]) ELSE Undefined

\* the response processCommand builds from the boolean that set returns
SetResponse(success) ==
    IF ~success
    THEN [success |-> FALSE,
          error |-> [text |-> "Failed to set value", key |-> Undefined]]
    ELSE [success |-> TRUE, data |-> TRUE]

Init ==
    /\ store = <<>>
    /\ hits = 0
    /\ misses = 0
    /\ currentMemoryBytes = 0
    /\ maxMemoryBytes = MaxBytes
    /\ cleanupInterval = TRUE
    /\ now = StartTime
    /\ last = [op |-> "new"]
    /\ connState = [c \in Conns |-> "awaiting"]
    /\ buffer = [c \in Conns |-> <<>>]
    /\ out = [c \in Conns |-> <<>>]
    /\ handler = None
    /\ inp = [c \in Conns |-> <<>>]
    /\ ran = <<>>
    /\ server = "listening"

\* mutant of Set: a set that finds the cache full evicts the oldest entry
\* before it gives up
Set_EvictsOldest(key, value, ttl) ==
    IF wouldExceedMemoryLimit(key, value)
    THEN /\ last' = [op |-> "set", key |-> key, value |-> value, ttl |-> ttl,
                     warn |-> Some(key), ret |-> FALSE]
         /\ store' = IF store = <<>> THEN store ELSE Tail(store)
         /\ currentMemoryBytes' =
                IF store = <<>> THEN currentMemoryBytes
                ELSE updateMemoryUsage(currentMemoryBytes, store[1].key,
                                       store[1].value, FALSE)
         /\ UNCHANGED <<hits, misses, cleanupInterval, now, maxMemoryBytes>>
    ELSE LET released ==
                 IF MapHas(store, key)
                 THEN updateMemoryUsage(currentMemoryBytes, key,
                                        MapGet(store, key).value, FALSE)
                 ELSE currentMemoryBytes
             item == [value |-> value, expiresAt |-> ExpiresAt(ttl, now)]
         IN  /\ store' = MapSet(store, key, item)
             /\ currentMemoryBytes' = updateMemoryUsage(released, key, value, TRUE)
             /\ last' = [op |-> "set", key |-> key, value |-> value, ttl |-> ttl,
                         warn |-> Undefined, replaced |-> MapHas(store, key),
                         ret |-> TRUE]
             /\ UNCHANGED <<hits, misses, cleanupInterval, now, maxMemoryBytes>>

\* set(key, value, { ttl }); last.replaced tells whether existingItem was found
Set(key, value, ttl) ==
    IF wouldExceedMemoryLimit(key, value)
    THEN /\ last' = [op |-> "set", key |-> key, value |-> value, ttl |-> ttl,
                     warn |-> Some(key), ret |-> FALSE]
         /\ UNCHANGED <<store, hits, misses, currentMemoryBytes,
                        cleanupInterval, now, maxMemoryBytes>>
    ELSE LET released ==
                 IF MapHas(store, key)
                 THEN updateMemoryUsage(currentMemoryBytes, key,
                                        MapGet(store, key).value, FALSE)
                 ELSE currentMemoryBytes
             item == [value |-> value, expiresAt |-> ExpiresAt(ttl, now)]
         IN  /\ store' = MapSet(store, key, item)
             /\ currentMemoryBytes' = updateMemoryUsage(released, key, value, TRUE)
             /\ last' = [op |-> "set", key |-> key, value |-> value, ttl |-> ttl,
                         warn |-> Undefined, replaced |-> MapHas(store, key),
                         ret |-> TRUE]
             /\ UNCHANGED <<hits, misses, cleanupInterval, now, maxMemoryBytes>>

\* the state change of delete(key): the store and the memory account after it
DeleteStore(key) == MapDelete(store, key)

\* mutant of DeleteBytes: the entry is dropped without releasing its charge
DeleteBytes_NoRelease(key) == currentMemoryBytes

DeleteBytes(key) ==
    IF MapHas(store, key)
    THEN updateMemoryUsage(currentMemoryBytes, key, MapGet(store, key).value, FALSE)
    ELSE currentMemoryBytes

\* delete(key)
Delete(key) ==
    /\ store' = DeleteStore(key)
    /\ currentMemoryBytes' = DeleteBytes(key)
    /\ last' = [op |-> "delete", key |-> key, ret |-> MapHas(store, key)]
    /\ UNCHANGED <<hits, misses, cleanupInterval, now, maxMemoryBytes>>

\* get(key); last.branch names the return statement that was taken
Get(key) ==
    /\ hits + misses < MaxGets
    /\ IF ~MapHas(store, key)
       THEN /\ misses' = misses + 1
            /\ last' = [op |-> "get", key |-> key, branch |-> "absent",
                        ret |-> Null]
            /\ UNCHANGED <<store, hits, currentMemoryBytes>>
       ELSE IF IsExpired(MapGet(store, key), now)
       THEN /\ store' = DeleteStore(key)
            /\ currentMemoryBytes' = DeleteBytes(key)
            /\ misses' = misses + 1
            /\ last' = [op |-> "get", key |-> key, branch |-> "expired",
                        ret |-> Null]
            /\ UNCHANGED hits
       ELSE /\ hits' = hits + 1
            /\ last' = [op |-> "get", key |-> key, branch |-> "hit",
                        ret |-> MapGet(store, key).value]
            /\ UNCHANGED <<store, misses, currentMemoryBytes>>
    /\ UNCHANGED <<cleanupInterval, now, maxMemoryBytes>>

\* the memory account after exists(key) has dropped an expired item: the
\* code calls this.store.delete(key) and leaves currentMemoryBytes alone
ExistsBytes(key) == currentMemoryBytes

\* exists(key); last.branch names the return statement that was taken
Exists(key) ==
    /\ IF ~MapHas(store, key)
       THEN /\ last' = [op |-> "exists", key |-> key, branch |-> "absent",
                        ret |-> FALSE]
            /\ UNCHANGED <<store, currentMemoryBytes>>
       ELSE IF IsExpired(MapGet(store, key), now)
       THEN /\ store' = MapDelete(store, key)
            /\ currentMemoryBytes' = ExistsBytes(key)
            /\ last' = [op |-> "exists", key |-> key, branch |-> "expired",
                        ret |-> FALSE]
       ELSE /\ last' = [op |-> "exists", key |-> key, branch |-> "present",
                        ret |-> TRUE]
            /\ UNCHANGED <<store, currentMemoryBytes>>
    /\ UNCHANGED <<hits, misses, cleanupInterval, now, maxMemoryBytes>>

\* mutant of keysResult: the keys listed newest first
keysResult_NewestFirst(pattern) ==
    LET allKeys == MapKeys(store)
        rev(q) == [i \in 1..Len(q) |-> q[Len(q) + 1 - i]]
    IN  IF pattern = <<>> THEN rev(allKeys)
        ELSE rev(Filter(allKeys, ReplaceStars(pattern)))

\* mutant of keysResult: the keys of expired items are left out
keysResult_SkipsExpired(pattern) ==
    LET live == { i \in 1..Len(store) : ~IsExpired(store[i], now) }
        F[i \in 0..Len(store)] ==
            IF i = 0 THEN <<>>
            ELSE IF i \in live THEN Append(F[i - 1], store[i].key)
            ELSE F[i - 1]
        allKeys == F[Len(store)]
    IN  IF pattern = <<>> THEN allKeys
        ELSE Filter(allKeys, ReplaceStars(pattern))

\* the array keys(pattern) returns; `!pattern` holds for the empty string
keysResult(pattern) ==
    LET allKeys == MapKeys(store)
    IN  IF pattern = <<>> THEN allKeys
        ELSE Filter(allKeys, ReplaceStars(pattern))

\* keys(pattern): the array it returns, or the SyntaxError that new RegExp
\* throws to the caller
KeysCall(pattern) ==
    /\ last' = IF pattern # <<>> /\ ~RegExpCompiles(ReplaceStars(pattern))
               THEN [op |-> "keysThrew", pattern |-> pattern,
                     message |-> "Invalid regular expression"]
               ELSE [op |-> "keys", pattern |-> pattern,
                     ret |-> keysResult(pattern)]
    /\ UNCHANGED <<store, hits, misses, currentMemoryBytes, cleanupInterval, now, maxMemoryBytes>>

\* mutant of Clear: the store is emptied and the memory account is kept
Clear_KeepsBytes ==
    /\ store' = <<>>
    /\ last' = [op |-> "clear"]
    /\ UNCHANGED <<hits, misses, currentMemoryBytes, cleanupInterval, now, maxMemoryBytes>>

\* clear()
Clear ==
    /\ store' = <<>>
    /\ currentMemoryBytes' = 0
    /\ last' = [op |-> "clear"]
    /\ UNCHANGED <<hits, misses, cleanupInterval, now, maxMemoryBytes>>

\* mutant of getStats: hitRate is computed when there were hits, and over the
\* hits alone
getStats_RateOverHits ==
    LET total == hits + misses
    IN  [size |-> Len(store),
         hits |-> hits,
         misses |-> misses,
         hitRate |-> IF hits > 0 THEN <<hits, hits>> ELSE <<0, 1>>,
         maxMemoryBytes |-> maxMemoryBytes,
         memoryUsageBytes |-> currentMemoryBytes,
         memoryUsagePercent |-> <<currentMemoryBytes * 100, maxMemoryBytes>>]

\* getStats(): hitRate is the fraction hits/total, kept as the pair
\* <<numerator, denominator>>, <<0, 1>> when total is 0; memoryUsagePercent is
\* the fraction currentMemoryBytes * 100 / maxMemoryBytes, kept the same way
getStats ==
    LET total == hits + misses
    IN  [size |-> Len(store),
         hits |-> hits,
         misses |-> misses,
         hitRate |-> IF total > 0 THEN <<hits, total>> ELSE <<0, 1>>,
         maxMemoryBytes |-> maxMemoryBytes,
         memoryUsageBytes |-> currentMemoryBytes,
         memoryUsagePercent |-> <<currentMemoryBytes * 100, maxMemoryBytes>>]

GetStats ==
    /\ last' = [op |-> "getStats", ret |-> getStats]
    /\ UNCHANGED <<store, hits, misses, currentMemoryBytes, cleanupInterval, now, maxMemoryBytes>>

RECURSIVE RemoveExpired_NoRelease(_, _, _)
\* mutant of RemoveExpired: the expired entries go, their charges stay
RemoveExpired_NoRelease(m, bytes, expiredKeys) ==
    IF expiredKeys = <<>> THEN <<m, bytes>>
    ELSE RemoveExpired_NoRelease(MapDelete(m, Head(expiredKeys)), bytes,
                                 Tail(expiredKeys))

RECURSIVE RemoveExpired(_, _, _)
\* the forEach of cleanup over expiredKeys: <<store, currentMemoryBytes>> after it
RemoveExpired(m, bytes, expiredKeys) ==
    IF expiredKeys = <<>> THEN <<m, bytes>>
    ELSE LET key == Head(expiredKeys)
             b == IF MapHas(m, key)
                  THEN updateMemoryUsage(bytes, key, MapGet(m, key).value, FALSE)
                  ELSE bytes
         IN  RemoveExpired(MapDelete(m, key), b, Tail(expiredKeys))

\* the keys cleanup collects: every entry with expiresAt set and now > expiresAt
ExpiredKeys(m, t) ==
    LET idx == { i \in 1..Len(m) : IsExpired(m[i], t) }
        F[i \in 0..Len(m)] ==
            IF i = 0 THEN <<>>
            ELSE IF i \in idx THEN Append(F[i - 1], m[i].key) ELSE F[i - 1]
    IN  F[Len(m)]

\* one run of the periodic cleanup(), fired by the interval timer;
\* last.cleaned is expiredKeys.length, the number the pass logs
Cleanup ==
    /\ cleanupInterval
    /\ LET expiredKeys == ExpiredKeys(store, now)
           r == RemoveExpired(store, currentMemoryBytes, expiredKeys)
       IN  /\ store' = r[1]
           /\ currentMemoryBytes' = r[2]
           /\ last' = [op |-> "cleanup", cleaned |-> Len(expiredKeys)]
    /\ UNCHANGED <<hits, misses, cleanupInterval, now, maxMemoryBytes>>

\* mutant of Shutdown: the counters are reset with the store
Shutdown_ResetsCounters ==
    /\ cleanupInterval' = FALSE
    /\ store' = <<>>
    /\ currentMemoryBytes' = 0
    /\ hits' = 0
    /\ misses' = 0
    /\ last' = [op |-> "shutdown"]
    /\ UNCHANGED <<now, maxMemoryBytes>>

\* mutant of Shutdown: the interval timer is left armed
Shutdown_KeepsTimer ==
    /\ store' = <<>>
    /\ currentMemoryBytes' = 0
    /\ last' = [op |-> "shutdown"]
    /\ UNCHANGED <<hits, misses, cleanupInterval, now, maxMemoryBytes>>

\* shutdown()
Shutdown ==
    /\ cleanupInterval' = FALSE
    /\ store' = <<>>
    /\ currentMemoryBytes' = 0
    /\ last' = [op |-> "shutdown"]
    /\ UNCHANGED <<hits, misses, now, maxMemoryBytes>>

\* time passes between two calls
Tick ==
    /\ now < StartTime + MaxTicks
    /\ now' = now + 1
    /\ last' = [op |-> "tick"]
    /\ UNCHANGED <<store, hits, misses, currentMemoryBytes, cleanupInterval,
                  maxMemoryBytes>>

\* an engine used through its methods, with no server around it
Next ==
    \/ \E key \in Keys, value \in Values, ttl \in TTLs :
           Set(key, value, ttl) /\ UNCHANGED srvVars
    \/ \E key \in Keys : Get(key) /\ UNCHANGED srvVars
    \/ \E key \in Keys : Delete(key) /\ UNCHANGED srvVars
    \/ \E key \in Keys : Exists(key) /\ UNCHANGED srvVars
    \/ \E pattern \in Patterns : KeysCall(pattern) /\ UNCHANGED srvVars
    \/ Clear /\ UNCHANGED srvVars
    \/ GetStats /\ UNCHANGED srvVars
    \/ Cleanup /\ UNCHANGED srvVars
    \/ Shutdown /\ UNCHANGED srvVars
    \/ Tick /\ UNCHANGED srvVars

Spec == Init /\ [][Next]_vars

\* options.ttl over every kind of number the validator lets through: absent,
\* zero, negative, positive
TtlValues == { Undefined, Some(0), Some(-1), Some(1) }

\* an engine whose one key is set with these ttls, read, and swept as time
\* passes
TtlNext ==
    \/ \E ttl \in TtlValues :
           Set(<<"u", ":", "1">>, Num(10), ttl) /\ UNCHANGED srvVars
    \/ Get(<<"u", ":", "1">>) /\ UNCHANGED srvVars
    \/ Exists(<<"u", ":", "1">>) /\ UNCHANGED srvVars
    \/ Cleanup /\ UNCHANGED srvVars
    \/ Tick /\ UNCHANGED srvVars

SpecTtl == Init /\ [][TtlNext]_vars

\* new ZenCache({maxMemoryMB}) with a budget that admits a set while two
\* entries are stored
OrderInit ==
    /\ store = <<>>
    /\ hits = 0
    /\ misses = 0
    /\ currentMemoryBytes = 0
    /\ maxMemoryBytes = RoomyBytes
    /\ cleanupInterval = TRUE
    /\ now = StartTime
    /\ last = [op |-> "new"]
    /\ connState = [c \in Conns |-> "awaiting"]
    /\ buffer = [c \in Conns |-> <<>>]
    /\ out = [c \in Conns |-> <<>>]
    /\ handler = None
    /\ inp = [c \in Conns |-> <<>>]
    /\ ran = <<>>
    /\ server = "listening"

\* that engine's keys are set, overwritten, removed (delete, expiry on get,
\* sweep, clear) and listed
OrderNext ==
    \/ \E key \in Keys, value \in Values, ttl \in { Undefined, Some(1) } :
           Set(key, value, ttl) /\ UNCHANGED srvVars
    \/ Get(<<"u", ":", "1">>) /\ UNCHANGED srvVars
    \/ \E key \in Keys : Delete(key) /\ UNCHANGED srvVars
    \/ KeysCall(<<>>) /\ UNCHANGED srvVars
    \/ Clear /\ UNCHANGED srvVars
    \/ Cleanup /\ UNCHANGED srvVars
    \/ Tick /\ UNCHANGED srvVars

SpecOrder == OrderInit /\ [][OrderNext]_vars

-----------------------------------------------------------------------------
(* The TCP server: src/src/server.ts                                       *)
(*                                                                         *)
(* A connection receives bytes.  A byte is written as a short string: the  *)
(* line terminator "\n", a space, the two bytes "C3" and "A9" that encode  *)
(* the character U+00E9, and symbols standing for a run of ASCII bytes     *)
(* that stays in one piece: a whole JSON text ("SET1", "GET1", ...) or a   *)
(* part of one ("{K", "K}").                                               *)

\* chunk.toString(): the UTF-8 decoding of one chunk by itself; a byte of a
\* two-byte character that arrives without its partner decodes to U+FFFD
RECURSIVE ChunkToString(_)
ChunkToString(chunk) ==
    IF chunk = <<>> THEN <<>>
    ELSE IF Len(chunk) >= 2 /\ chunk[1] = "C3" /\ chunk[2] = "A9"
    THEN <<"U+00E9">> \o ChunkToString(SubSeq(chunk, 3, Len(chunk)))
    ELSE IF Head(chunk) \in {"C3", "A9"}
    THEN <<"U+FFFD">> \o ChunkToString(Tail(chunk))
    ELSE <<Head(chunk)>> \o ChunkToString(Tail(chunk))

\* buffer.indexOf('\n'), counted from 1; 0 when there is none
IndexOf(s, ch) ==
    IF \E i \in 1..Len(s) : s[i] = ch
    THEN CHOOSE i \in 1..Len(s) : s[i] = ch /\ \A j \in 1..(i - 1) : s[j] # ch
    ELSE 0

IsWhiteSpace(ch) == ch \in {" ", "\t", "\r", "\n"}

RECURSIVE TrimStart(_)
TrimStart(s) ==
    IF s # <<>> /\ IsWhiteSpace(Head(s)) THEN TrimStart(Tail(s)) ELSE s

RECURSIVE TrimEnd(_)
TrimEnd(s) ==
    IF s # <<>> /\ IsWhiteSpace(s[Len(s)])
    THEN TrimEnd(SubSeq(s, 1, Len(s) - 1))
    ELSE s

\* String.prototype.trim
Trim(s) == TrimEnd(TrimStart(s))

\* a command object as JSON.parse returns it: a field that is absent is
\* Undefined, a field that is present is Some(value)
Command(id, type, key, value, ttl, pattern) ==
    [t |-> "object", id |-> id, type |-> type, key |-> key, value |-> value,
     ttl |-> ttl, pattern |-> pattern]

\* the JSON texts that a single symbol stands for, and the value of each
JsonTexts ==
    [SET1 |-> Command(Some(Str("s1")), Some(Str("SET")),
                      Some(Str(<<"u", ":", "1">>)), Some(Num(10)),
                      Undefined, Undefined),
     GET1 |-> Command(Some(Str("g1")), Some(Str("GET")),
                      Some(Str(<<"u", ":", "1">>)), Undefined,
                      Undefined, Undefined),
     NOID |-> Command(Undefined, Some(Str("GET")),
                      Some(Str(<<"u", ":", "1">>)), Undefined,
                      Undefined, Undefined),
     KNULL |-> Command(Some(Str("k")), Some(Str("GET")),
                       Some(Null), Undefined, Undefined, Undefined),
     SET2 |-> Command(Some(Str("s2")), Some(Str("SET")),
                      Some(Str(<<"u", ":", "2">>)), Some(Num(10)),
                      Undefined, Undefined),
     NUMID |-> Command(Some(Num(7)), Some(Str("GET")),
                       Some(Str(<<"u", ":", "1">>)), Undefined,
                       Undefined, Undefined),
     NOKEY |-> Command(Some(Str("n")), Some(Str("GET")),
                       Some(Str(<<>>)), Undefined, Undefined, Undefined),
     FOO |-> Command(Some(Str("f")), Some(Str("FOO")),
                     Undefined, Undefined, Undefined, Undefined),
     SETNK |-> Command(Some(Str("s3")), Some(Str("SET")), Undefined,
                       Some(Num(10)), Undefined, Undefined),
     GETNK |-> Command(Some(Str("g3")), Some(Str("GET")), Undefined,
                       Undefined, Undefined, Undefined),
     PING |-> Command(Some(Str("p")), Some(Str("PING")),
                      Undefined, Undefined, Undefined, Undefined),
     STATS |-> Command(Some(Str("t")), Some(Str("STATS")),
                       Undefined, Undefined, Undefined, Undefined),
     SETT |-> Command(Some(Str("s4")), Some(Str("SET")),
                      Some(Str(<<"u", ":", "1">>)), Some(Num(10)),
                      Some(Num(1)), Undefined),
     EXS1 |-> Command(Some(Str("x1")), Some(Str("EXISTS")),
                      Some(Str(<<"u", ":", "1">>)), Undefined,
                      Undefined, Undefined),
     DEL1 |-> Command(Some(Str("d1")), Some(Str("DELETE")),
                      Some(Str(<<"u", ":", "1">>)), Undefined,
                      Undefined, Undefined),
     KEYS1 |-> Command(Some(Str("k1")), Some(Str("KEYS")), Undefined,
                       Undefined, Undefined, Some(Str(<<"u", ":", "*">>))),
     KEYSBAD |-> Command(Some(Str("k2")), Some(Str("KEYS")), Undefined,
                         Undefined, Undefined, Some(Str(<<"(">>))),
     FIVE |-> Num(5),
     NULL |-> Null]

\* the characters that may stand inside the string literal of a key
StringChars == {"U+00E9", "U+FFFD", " "}

\* JSON.parse(raw): the value, or threw when raw is not a JSON text.  The
\* text "{K" key "K}" is {"id":"e","type":"SET","value":10,"key":"<key>"}
JsonParse(raw) ==
    IF Len(raw) = 1 /\ raw[1] \in DOMAIN JsonTexts
    THEN [threw |-> FALSE, value |-> JsonTexts[raw[1]]]
    ELSE IF /\ Len(raw) >= 2
            /\ raw[1] = "{K"
            /\ raw[Len(raw)] = "K}"
            /\ \A i \in 2..(Len(raw) - 1) : raw[i] \in StringChars
    THEN [threw |-> FALSE,
          value |-> Command(Some(Str("e")), Some(Str("SET")),
                            Some(Str(SubSeq(raw, 2, Len(raw) - 1))),
                            Some(Num(10)), Undefined, Undefined)]
    ELSE [threw |-> TRUE, value |-> Null]

\* an error as a response carries it: its text, and the key it names if any
Error(text) == [text |-> text, key |-> Undefined]

\* typeof field === 'string', for a field of a command object
IsString(field) == field # Undefined /\ field[1].t = "string"

\* the upper limit of the key check
MAX_KEY_LENGTH == 5000

\* value.length is a number: on a string (its characters) and on an array
\* (its elements); on a number, a boolean and a record without such a field
\* it is undefined
HasLength(value) == value.t \in {"string", "array"}

Length(value) == IF value.t = "string" THEN Len(value.s) ELSE Len(value.a)

\* mutant of validateCommand: the key is checked before id and type
validateCommand_KeyFirst(command) ==
    IF command.t = "null" THEN [threw |-> TRUE]
    ELSE IF /\ command.t = "object"
            /\ command.key # Undefined
            /\ command.key[1].t = "null"
    THEN [threw |-> TRUE]
    ELSE IF /\ command.t = "object"
            /\ command.key # Undefined
            /\ HasLength(command.key[1])
            /\ (Length(command.key[1]) < 1
                  \/ Length(command.key[1]) > MAX_KEY_LENGTH)
    THEN [threw |-> FALSE, success |-> FALSE,
          error |-> Error("Key must be between 1 and 5000 characters")]
    ELSE IF \/ command.t # "object"
            \/ ~IsString(command.id)
            \/ ~IsString(command.type)
    THEN [threw |-> FALSE, success |-> FALSE,
          error |-> Error("Command must include an id and type")]
    ELSE IF command.ttl # Undefined /\ command.ttl[1].t # "number"
    THEN [threw |-> FALSE, success |-> FALSE,
          error |-> Error("TTL must be a number")]
    ELSE [threw |-> FALSE, success |-> TRUE]

\* mutant of validateCommand: a ttl that is null passes, as a loose
\* comparison with undefined would let it
validateCommand_NullTtlPasses(command) ==
    IF command.t = "null" THEN [threw |-> TRUE]
    ELSE IF \/ command.t # "object"
            \/ ~IsString(command.id)
            \/ ~IsString(command.type)
    THEN [threw |-> FALSE, success |-> FALSE,
          error |-> Error("Command must include an id and type")]
    ELSE IF command.key # Undefined /\ command.key[1].t = "null"
    THEN [threw |-> TRUE]
    ELSE IF /\ command.key # Undefined
            /\ HasLength(command.key[1])
            /\ (Length(command.key[1]) < 1
                  \/ Length(command.key[1]) > MAX_KEY_LENGTH)
    THEN [threw |-> FALSE, success |-> FALSE,
          error |-> Error("Key must be between 1 and 5000 characters")]
    ELSE IF /\ command.ttl # Undefined
            /\ command.ttl[1].t \notin {"number", "null"}
    THEN [threw |-> FALSE, success |-> FALSE,
          error |-> Error("TTL must be a number")]
    ELSE [threw |-> FALSE, success |-> TRUE]

\* ZenCache.validateCommand(command): what it returns, or threw.  Reading id
\* and type off null throws, off another primitive or an array gives
\* undefined; reading .length off a key that is null throws, off a number or
\* boolean gives undefined, which fails both comparisons
validateCommand(command) ==
    IF command.t = "null" THEN [threw |-> TRUE]
    ELSE IF \/ command.t # "object"
            \/ ~IsString(command.id)
            \/ ~IsString(command.type)
    THEN [threw |-> FALSE, success |-> FALSE,
          error |-> Error("Command must include an id and type")]
    ELSE IF command.key # Undefined /\ command.key[1].t = "null"
    THEN [threw |-> TRUE]
    ELSE IF /\ command.key # Undefined
            /\ HasLength(command.key[1])
            /\ (Length(command.key[1]) < 1
                  \/ Length(command.key[1]) > MAX_KEY_LENGTH)
    THEN [threw |-> FALSE, success |-> FALSE,
          error |-> Error("Key must be between 1 and 5000 characters")]
    ELSE IF command.ttl # Undefined /\ command.ttl[1].t # "number"
    THEN [threw |-> FALSE, success |-> FALSE,
          error |-> Error("TTL must be a number")]
    ELSE [threw |-> FALSE, success |-> TRUE]

\* command.id as onData reads it: undefined off a primitive
CommandId(command) == IF command.t = "object" THEN command.id ELSE Undefined

\* the line sendResponse writes: JSON.stringify drops an id that is undefined
sendResponse(response, commandId) == [id |-> commandId, response |-> response]

\* sendResponse(socket, response, commandId) on connection c
Reply(c, response, commandId) ==
    out' = [out EXCEPT ![c] = Append(@, sendResponse(response, commandId))]

\* the options.ttl that processCommand hands to set
TtlArg(command) ==
    IF command.ttl = Undefined THEN Undefined ELSE Some(command.ttl[1].n)

\* command.key as processCommand hands it to the engine, for a command whose
\* key is a string or absent
KeyArg(command) ==
    IF command.key = Undefined THEN UndefinedKey ELSE command.key[1].s

\* mutant of processCommand: the default case falls through to CLEAR
processCommand_DefaultClears(command) ==
    LET type == command.type[1].s
    IN  CASE type = "SET" ->
                 Set(KeyArg(command), command.value[1], TtlArg(command))
          [] type = "GET" -> Get(KeyArg(command))
          [] type = "DELETE" -> Delete(KeyArg(command))
          [] type = "EXISTS" -> Exists(KeyArg(command))
          [] type = "KEYS" ->
                 KeysCall(IF command.pattern = Undefined THEN <<>>
                          ELSE command.pattern[1].s)
          [] type = "STATS" -> GetStats
          [] type = "PING" ->
                 /\ last' = [op |-> "ping"]
                 /\ UNCHANGED <<store, hits, misses, currentMemoryBytes,
                                cleanupInterval, now, maxMemoryBytes>>
          [] OTHER -> Clear

\* processCommand(command): the call it makes on the engine
processCommand(command) ==
    LET type == command.type[1].s
    IN  CASE type = "SET" ->
                 Set(KeyArg(command), command.value[1], TtlArg(command))
          [] type = "GET" -> Get(KeyArg(command))
          [] type = "DELETE" -> Delete(KeyArg(command))
          [] type = "EXISTS" -> Exists(KeyArg(command))
          [] type = "KEYS" ->
                 KeysCall(IF command.pattern = Undefined THEN <<>>
                          ELSE command.pattern[1].s)
          [] type = "CLEAR" -> Clear
          [] type = "STATS" -> GetStats
          [] type = "PING" ->
                 /\ last' = [op |-> "ping"]
                 /\ UNCHANGED <<store, hits, misses, currentMemoryBytes,
                                cleanupInterval, now, maxMemoryBytes>>
          [] OTHER ->
                 /\ last' = [op |-> "unknown"]
                 /\ UNCHANGED <<store, hits, misses, currentMemoryBytes,
                                cleanupInterval, now, maxMemoryBytes>>

\* the response processCommand returns once the engine call has returned ret
processResponse(command, ret) ==
    LET type == command.type[1].s
    IN  CASE type = "SET" -> SetResponse(ret)
          [] type \in {"GET", "DELETE", "EXISTS", "KEYS", "STATS"} ->
                 [success |-> TRUE, data |-> ret]
          [] type = "CLEAR" -> [success |-> TRUE, data |-> TRUE]
          [] type = "PING" -> [success |-> TRUE, data |-> Str("PONG")]
          [] OTHER -> [success |-> FALSE, error |-> Error("Unknown command")]

\* the value the engine call of processCommand returned, read off last
Returned(l) == IF l.op \in {"clear", "ping", "unknown"} THEN TRUE ELSE l.ret

\* mutant of Caught: the catch of processCommand answers 'Unknown error'
Caught_UnknownError(l) == [success |-> FALSE, error |-> Error("Unknown error")]

\* the catch of processCommand: the response made of the error's message
Caught(l) == [success |-> FALSE, error |-> Error(l.message)]

\* the response processCommand returns for the engine call recorded in l
Response(command, l) ==
    IF l.op = "keysThrew" THEN Caught(l)
    ELSE processResponse(command, Returned(l))

\* mutant of onData: a command that fails validation is dispatched all the
\* same, and the validation error sent
onData_DispatchesRejected(c, raw) ==
    LET parsed == JsonParse(raw)
        command == parsed.value
        validation == validateCommand(command)
    IN  /\ ran' = Append(ran, <<c, raw>>)
        /\ IF parsed.threw
           THEN /\ Reply(c, [success |-> FALSE, error |-> Error("SyntaxError")],
                         Undefined)
                /\ UNCHANGED engineVars
           ELSE IF validation.threw
           THEN /\ Reply(c, [success |-> FALSE, error |-> Error("TypeError")],
                         Undefined)
                /\ UNCHANGED engineVars
           ELSE IF ~validation.success
           THEN /\ Reply(c, [success |-> FALSE, error |-> validation.error],
                         CommandId(command))
                /\ IF command.t = "object" /\ IsString(command.type)
                   THEN processCommand(command)
                   ELSE UNCHANGED engineVars
           ELSE /\ processCommand(command)
                /\ Reply(c, Response(command, last'), command.id)

\* mutant of onData: the catch block echoes no error line
onData_SilentCatch(c, raw) ==
    LET parsed == JsonParse(raw)
        command == parsed.value
        validation == validateCommand(command)
    IN  /\ ran' = Append(ran, <<c, raw>>)
        /\ IF parsed.threw
           THEN /\ UNCHANGED out
                /\ UNCHANGED engineVars
           ELSE IF validation.threw
           THEN /\ Reply(c, [success |-> FALSE, error |-> Error("TypeError")],
                         Undefined)
                /\ UNCHANGED engineVars
           ELSE IF ~validation.success
           THEN /\ Reply(c, [success |-> FALSE, error |-> validation.error],
                         CommandId(command))
                /\ UNCHANGED engineVars
           ELSE /\ processCommand(command)
                /\ Reply(c, Response(command, last'), command.id)

\* onData(socket, raw) on connection c
onData(c, raw) ==
    LET parsed == JsonParse(raw)
        command == parsed.value
        validation == validateCommand(command)
    IN  /\ ran' = Append(ran, <<c, raw>>)
        /\ IF parsed.threw
           THEN /\ Reply(c, [success |-> FALSE, error |-> Error("SyntaxError")],
                         Undefined)
                /\ UNCHANGED engineVars
           ELSE IF validation.threw
           THEN /\ Reply(c, [success |-> FALSE, error |-> Error("TypeError")],
                         Undefined)
                /\ UNCHANGED engineVars
           ELSE IF ~validation.success
           THEN /\ Reply(c, [success |-> FALSE, error |-> validation.error],
                         CommandId(command))
                /\ UNCHANGED engineVars
           ELSE /\ processCommand(command)
                /\ Reply(c, Response(command, last'), command.id)

\* mutant of Banner: the welcome line carries an id
Banner_WithId ==
    sendResponse([success |-> TRUE, data |-> Str("Welcome to ZenCache!")],
                 Some(Str("0")))

\* the welcome banner of onConnection
Banner == sendResponse([success |-> TRUE, data |-> Str("Welcome to ZenCache!")],
                       Undefined)

\* mutant of OnConnection: every connection is given an engine of its own,
\* which starts empty
OnConnection_OwnEngine(c) ==
    /\ handler = None
    /\ server = "listening"
    /\ connState[c] = "awaiting"
    /\ connState' = [connState EXCEPT ![c] = "open"]
    /\ buffer' = [buffer EXCEPT ![c] = <<>>]
    /\ out' = [out EXCEPT ![c] = Append(@, Banner)]
    /\ UNCHANGED <<handler, inp, ran, server>>
    /\ store' = <<>>
    /\ currentMemoryBytes' = 0
    /\ last' = [op |-> "new"]
    /\ UNCHANGED <<hits, misses, cleanupInterval, now, maxMemoryBytes>>

\* onConnection(socket): a connection is accepted, which a server does while
\* it is listening
OnConnection(c) ==
    /\ handler = None
    /\ server = "listening"
    /\ connState[c] = "awaiting"
    /\ connState' = [connState EXCEPT ![c] = "open"]
    /\ buffer' = [buffer EXCEPT ![c] = <<>>]
    /\ out' = [out EXCEPT ![c] = Append(@, Banner)]
    /\ UNCHANGED <<handler, inp, ran, server>>
    /\ UNCHANGED engineVars

\* mutant of SocketData: the receive buffer is one variable of the server, to
\* which the chunks of every connection are appended
SocketData_SharedBuffer(c, chunk) ==
    /\ handler = None
    /\ connState[c] = "open"
    /\ buffer' = [d \in Conns |-> buffer[d] \o ChunkToString(chunk)]
    /\ inp' = [inp EXCEPT ![c] = @ \o chunk]
    /\ handler' = IF IndexOf(buffer'[c], "\n") > 0 THEN c ELSE None
    /\ UNCHANGED <<connState, out, ran, server>>
    /\ UNCHANGED engineVars

\* the 'data' callback up to its loop: the chunk is decoded and appended
SocketData(c, chunk) ==
    /\ handler = None
    /\ connState[c] = "open"
    /\ buffer' = [buffer EXCEPT ![c] = @ \o ChunkToString(chunk)]
    /\ inp' = [inp EXCEPT ![c] = @ \o chunk]
    /\ handler' = IF IndexOf(buffer'[c], "\n") > 0 THEN c ELSE None
    /\ UNCHANGED <<connState, out, ran, server>>
    /\ UNCHANGED engineVars

\* mutant of LineBoundary: the loop takes the last line of the buffer first
LineBoundary_Last(b) ==
    CHOOSE i \in 1..Len(b) : b[i] = "\n" /\ \A j \in (i + 1)..Len(b) : b[j] # "\n"

\* boundary = buffer.indexOf('\n'), in a buffer that holds a terminator
LineBoundary(b) == IndexOf(b, "\n")

\* one turn of the loop of the 'data' callback; the callback runs to its end
\* before any other callback of the process starts
OnLine(c) ==
    /\ handler = c
    /\ LET boundary == LineBoundary(buffer[c])
           raw == Trim(SubSeq(buffer[c], 1, boundary - 1))
           rest == SubSeq(buffer[c], boundary + 1, Len(buffer[c]))
       IN  /\ buffer' = [buffer EXCEPT ![c] = rest]
           /\ handler' = IF IndexOf(rest, "\n") > 0 THEN c ELSE None
           /\ IF raw = <<>>
              THEN /\ UNCHANGED <<out, ran>>
                   /\ UNCHANGED engineVars
              ELSE onData(c, raw)
    /\ UNCHANGED <<connState, inp, server>>

\* mutant of SocketClose: the receive buffer is one variable of the server,
\* and a close resets it
SocketClose_SharedBuffer(c) ==
    /\ handler = None
    /\ connState[c] = "open"
    /\ connState' = [connState EXCEPT ![c] = "closed"]
    /\ buffer' = [d \in Conns |-> <<>>]
    /\ UNCHANGED <<out, handler, inp, ran, server>>
    /\ UNCHANGED engineVars

\* the connection closes, because the peer disconnected or the socket failed:
\* onSocketError and onClose only log, and the closure that holds the buffer
\* is released
SocketClose(c) ==
    /\ handler = None
    /\ connState[c] = "open"
    /\ connState' = [connState EXCEPT ![c] = "closed"]
    /\ buffer' = [buffer EXCEPT ![c] = <<>>]
    /\ UNCHANGED <<out, handler, inp, ran, server>>
    /\ UNCHANGED engineVars

\* mutant of Stop: stop() ends the connections the server has
Stop_EndsConnections ==
    /\ handler = None
    /\ server = "listening"
    /\ server' = "closing"
    /\ connState' = [c \in Conns |->
                        IF connState[c] = "open" THEN "closed" ELSE connState[c]]
    /\ UNCHANGED <<buffer, out, handler, inp, ran>>
    /\ UNCHANGED engineVars

\* stop() is called: this.server.close(callback) makes the server stop
\* accepting; the connections it has stay open
Stop ==
    /\ handler = None
    /\ server = "listening"
    /\ server' = "closing"
    /\ UNCHANGED <<connState, buffer, out, handler, inp, ran>>
    /\ UNCHANGED engineVars

\* mutant of ServerClosed: the callback does not wait for the connections
ServerClosed_NoWait ==
    /\ handler = None
    /\ server = "closing"
    /\ Shutdown
    /\ server' = "stopped"
    /\ UNCHANGED <<connState, buffer, out, handler, inp, ran>>

\* the callback of this.server.close, which the server calls once it has
\* stopped listening and every connection has ended: the engine is shut
\* down, then the promise of stop() resolved
ServerClosed ==
    /\ handler = None
    /\ server = "closing"
    /\ \A c \in Conns : connState[c] # "open"
    /\ Shutdown
    /\ server' = "stopped"
    /\ UNCHANGED <<connState, buffer, out, handler, inp, ran>>

\* the number of times x occurs in the sequence s
RECURSIVE Count(_, _)
Count(s, x) ==
    IF s = <<>> THEN 0 ELSE (IF Head(s) = x THEN 1 ELSE 0) + Count(Tail(s), x)

\* the texts clients send in ServerNext; "?" is not a JSON text
ServerTexts == {"SET1", "GET1", "NOID", "KNULL", "?"}

\* the chunks that arrive in ServerNext: a text without its terminator, a
\* terminator, one whole line, two whole lines
ServerChunks ==
    { <<x>> : x \in ServerTexts } \cup { <<"\n">> }
    \cup { <<x, "\n">> : x \in ServerTexts }
    \cup { <<x, "\n", y, "\n">> : x, y \in ServerTexts }

\* a server with its connections and the engine's timer.  A chunk arrives
\* while at most MaxLines lines and MaxGets GET commands have been sent in
\* all; a text starts a line and a lone terminator ends one
ServerNext ==
    \/ \E c \in Conns : OnConnection(c)
    \/ \E c \in Conns, chunk \in ServerChunks :
           /\ Len(ran) + Count(chunk, "\n") <= MaxLines
           /\ hits + misses + Count(chunk, "GET1")
                 + Count(buffer["A"] \o buffer["B"], "GET1") <= MaxGets
           /\ IF chunk = <<"\n">> THEN buffer[c] # <<>> ELSE buffer[c] = <<>>
           /\ SocketData(c, chunk)
    \/ \E c \in Conns : OnLine(c)
    \/ \E c \in Conns : SocketClose(c)
    \/ handler = None /\ Cleanup /\ UNCHANGED srvVars

SpecServer == Init /\ [][ServerNext]_vars

\* the chunks that arrive in InterleavedNext: a text without its terminator,
\* or a terminator
InterleavedChunks == { <<"SET1">>, <<"GET1">>, <<"\n">> }

\* two connections whose chunks arrive interleaved in any order, a terminator
\* also on a connection that has nothing buffered, at most MaxStream pieces
\* in all
InterleavedNext ==
    \/ \E c \in Conns : OnConnection(c)
    \/ \E c \in Conns, chunk \in InterleavedChunks :
           /\ Len(inp["A"]) + Len(inp["B"]) < MaxStream
           /\ SocketData(c, chunk)
    \/ \E c \in Conns : OnLine(c)

SpecInterleaved == Init /\ [][InterleavedNext]_vars

\* the texts the clients send in SharedNext: SET with a ttl, GET, EXISTS and
\* DELETE of one key
SharedTexts == {"SETT", "GET1", "EXS1", "DEL1"}

\* a server from start() to the end of stop(): its connections send whole
\* lines, at most MaxLines lines and MaxGets GET commands in all, while time
\* passes and the sweep timer fires
SharedNext ==
    \/ \E c \in Conns : OnConnection(c)
    \/ \E c \in Conns, x \in SharedTexts :
           /\ Len(ran) < MaxLines
           /\ hits + misses + Count(<<x>>, "GET1") <= MaxGets
           /\ SocketData(c, <<x, "\n">>)
    \/ \E c \in Conns : OnLine(c)
    \/ \E c \in Conns : SocketClose(c)
    \/ handler = None /\ Cleanup /\ UNCHANGED srvVars
    \/ Tick /\ UNCHANGED srvVars
    \/ Stop
    \/ ServerClosed

SpecShared == Init /\ [][SharedNext]_vars

\* the same server, whose net.Server emits 'close', and so runs the callback
\* of stop(), once it has stopped listening and has no connection left
SpecSharedFair == SpecShared /\ WF_vars(ServerClosed)

\* the texts the client sends in LinesNext: every JSON text, and "?"
LineTexts == DOMAIN JsonTexts \cup {"?"}

\* one connection on which at most MaxLines whole lines arrive, one line a
\* chunk, at most MaxGets of them GET commands
LinesNext ==
    \/ OnConnection("A")
    \/ \E x \in LineTexts :
           /\ Len(ran) < MaxLines
           /\ hits + misses + Count(<<x>>, "GET1") + Count(<<x>>, "GETNK")
                  <= MaxGets
           /\ SocketData("A", <<x, "\n">>)
    \/ OnLine("A")
    \/ SocketClose("A")

SpecLines == Init /\ [][LinesNext]_vars

\* the stores that getStats is applied to in SpecStats: none, one or two
\* entries, within the budget
StatsStores ==
    { <<>>,
      << [key |-> <<"u", ":", "1">>, value |-> Str(<<"a">>),
          expiresAt |-> Undefined] >>,
      << [key |-> <<"u", ":", "1">>, value |-> Num(10),
          expiresAt |-> Undefined] >>,
      << [key |-> <<"u", ":", "2">>, value |-> Str(<<"a">>),
          expiresAt |-> Some(StartTime + 1)] >>,
      << [key |-> <<"u", ":", "1">>, value |-> Str(<<"a">>),
          expiresAt |-> Undefined],
         [key |-> <<"u", ":", "2">>, value |-> Str(<<"a">>),
          expiresAt |-> Undefined] >> }

RECURSIVE StoreBytes(_)
\* the memory account after the entries of m were set one after the other
StoreBytes(m) ==
    IF m = <<>> THEN 0
    ELSE itemSize(Head(m).key, Head(m).value) + StoreBytes(Tail(m))

\* an engine that holds one of these stores and has counted up to MaxCount
\* hits and up to MaxCount misses
StatsInit ==
    /\ store \in StatsStores
    /\ hits \in 0..MaxCount
    /\ misses \in 0..MaxCount
    /\ currentMemoryBytes = StoreBytes(store)
    /\ maxMemoryBytes = MaxBytes
    /\ cleanupInterval = TRUE
    /\ now = StartTime
    /\ last = [op |-> "new"]
    /\ connState = [c \in Conns |-> "awaiting"]
    /\ buffer = [c \in Conns |-> <<>>]
    /\ out = [c \in Conns |-> <<>>]
    /\ handler = None
    /\ inp = [c \in Conns |-> <<>>]
    /\ ran = <<>>
    /\ server = "listening"

StatsNext == GetStats /\ UNCHANGED srvVars

SpecStats == StatsInit /\ [][StatsNext]_vars

\* the bytes of the streams of FramingNext
FramingBytes == {"\n", " ", "{K", "K}", "C3", "A9"}

\* the chunks of FramingNext: one byte or two
FramingChunks ==
    { <<a>> : a \in FramingBytes } \cup { <<a, b>> : a, b \in FramingBytes }

\* one connection that receives a stream of at most MaxStream bytes, cut
\* into chunks at any place
FramingNext ==
    \/ OnConnection("A")
    \/ \E chunk \in FramingChunks :
           /\ Len(inp["A"]) + Len(chunk) <= MaxStream
           /\ SocketData("A", chunk)
    \/ OnLine("A")

SpecFraming == Init /\ [][FramingNext]_vars

-----------------------------------------------------------------------------
(* The validator applied to one command, for every shape of command *)

\* a key of n characters
KeyOfLength(n) == [i \in 1..n |-> "k"]

\* what the id, type, key and ttl fields of a command may hold: absent, or a
\* JSON value of each kind; the keys have the lengths around both limits
ValidatorIds == { Undefined, Some(Str("1")), Some(Num(7)), Some(Null) }

ValidatorTypes == { Undefined, Some(Str("GET")), Some(Str("SET")), Some(Num(7)) }

ValidatorKeys ==
    { Undefined, Some(Null), Some(Num(5)), Some(Bool(TRUE)),
      Some(Arr(<<>>)), Some(Arr(<<Num(1)>>)) }
    \cup { Some(Str(KeyOfLength(n))) :
               n \in {0, 1, 2, MAX_KEY_LENGTH - 1, MAX_KEY_LENGTH,
                      MAX_KEY_LENGTH + 1} }

ValidatorTtls ==
    { Undefined, Some(Num(1)), Some(Num(0)), Some(Str(<<"1">>)),
      Some(Bool(TRUE)), Some(Null),
      Some(Command(Undefined, Undefined, Undefined, Undefined, Undefined,
                   Undefined)) }

\* the commands handed to the validator: every record over these fields, and
\* the JSON values that are no record
ValidatorCommands ==
    { Command(id, type, key, Undefined, ttl, Undefined) :
          id \in ValidatorIds, type \in ValidatorTypes,
          key \in ValidatorKeys, ttl \in ValidatorTtls }
    \cup { Num(5), Null, Str(<<"a">>), Bool(TRUE), Arr(<<>>) }

\* a command has arrived and is about to be validated
ValidateInit ==
    /\ store = <<>>
    /\ hits = 0
    /\ misses = 0
    /\ currentMemoryBytes = 0
    /\ maxMemoryBytes = MaxBytes
    /\ cleanupInterval = TRUE
    /\ now = StartTime
    /\ last \in { [op |-> "command", command |-> command] :
                      command \in ValidatorCommands }
    /\ connState = [c \in Conns |-> "awaiting"]
    /\ buffer = [c \in Conns |-> <<>>]
    /\ out = [c \in Conns |-> <<>>]
    /\ handler = None
    /\ inp = [c \in Conns |-> <<>>]
    /\ ran = <<>>
    /\ server = "listening"

\* const validation = ZenCache.validateCommand(command)
Validate ==
    /\ last.op = "command"
    /\ last' = [op |-> "validateCommand", command |-> last.command,
                validation |-> validateCommand(last.command)]
    /\ UNCHANGED <<store, hits, misses, currentMemoryBytes, cleanupInterval,
                   now, maxMemoryBytes>>
    /\ UNCHANGED srvVars

SpecValidate == ValidateInit /\ [][Validate]_vars

-----------------------------------------------------------------------------
(* What the claims speak of *)

\* the charge of one entry: estimate(key) + estimate(value) + 100
Charge(e) == getByteSize(KeyValue(e.key)) + getByteSize(e.value) + 100

RECURSIVE SumCharges(_)
SumCharges(m) == IF m = <<>> THEN 0 ELSE Charge(Head(m)) + SumCharges(Tail(m))

\* the entry's expiry is set and has passed at time t
Expired(e, t) == e.expiresAt # Undefined /\ t > e.expiresAt[1]

\* the entries of m other than the one of key k, in order
RECURSIVE Without(_, _)
Without(m, k) ==
    IF m = <<>> THEN <<>>
    ELSE (IF Head(m).key = k THEN <<>> ELSE <<Head(m)>>) \o Without(Tail(m), k)

\* the step just taken is one that may take key k's entry away or replace it
Replaces(l, k) ==
    \/ l.op \in {"clear", "shutdown"}
    \/ l.op = "delete" /\ l.key = k
    \/ l.op = "set" /\ l.key = k /\ l.ret

NoDuplicates(s) == \A i, j \in 1..Len(s) : s[i] = s[j] => i = j

\* C1: in every reachable state 0 <= currentBytes <= maxBytes
C1_WithinBudget ==
    /\ 0 <= currentMemoryBytes
    /\ currentMemoryBytes <= MaxBytes

\* C1 witness: the budget is used up to the last byte by two entries
C1_Witness ==
    /\ currentMemoryBytes = MaxBytes
    /\ Len(store) = 2

\* C2: in every reachable state currentBytes is the sum of the charges of
\* the entries in the store (0 when the store is empty)
C2_MemoryAccurate == currentMemoryBytes = SumCharges(store)

\* C3: a set rejected for capacity returns success:false with an error that
\* names the key, and leaves store, currentBytes, hits and misses as they were
C3_RejectedSet ==
    [][(last'.op = "set" /\ ~last'.ret) =>
            /\ UNCHANGED <<store, currentMemoryBytes, hits, misses>>
            /\ SetResponse(last'.ret).success = FALSE
            /\ SetResponse(last'.ret).error.key = Some(last'.key)
      ]_vars

\* the frame part of C3 alone: a rejected set returns false and changes nothing
C3_RejectedSetFrame ==
    [][(last'.op = "set" /\ ~last'.ret) =>
            /\ UNCHANGED <<store, currentMemoryBytes, hits, misses>>
            /\ SetResponse(last'.ret).success = FALSE
      ]_vars

\* C4: a successful set(k, v) without ttl stores v with no expiry; from then
\* on every get(k) returns v and the entry stays as it is, whatever the time
\* and whichever other call runs, until delete(k), clear, shutdown or a
\* successful set(k, ...)
C4_NoTtlPersists ==
    [][/\ (last'.op = "set" /\ last'.ret /\ last'.ttl = Undefined) =>
            /\ MapHas(store', last'.key)
            /\ MapGet(store', last'.key).value = last'.value
            /\ MapGet(store', last'.key).expiresAt = Undefined
       /\ \A k \in Keys :
            (MapHas(store, k) /\ MapGet(store, k).expiresAt = Undefined) =>
                /\ (last'.op = "get" /\ last'.key = k) =>
                        last'.ret = MapGet(store, k).value
                /\ ~Replaces(last', k) =>
                        /\ MapHas(store', k)
                        /\ MapGet(store', k) = MapGet(store, k)
      ]_vars

\* C4 witness: a get has returned the value of an entry without expiry after
\* time has passed
C4_Witness ==
    /\ last.op = "get"
    /\ last.branch = "hit"
    /\ MapGet(store, last.key).expiresAt = Undefined
    /\ last.ret = MapGet(store, last.key).value
    /\ now > StartTime

\* C5: a successful set(k, v, t) with t > 0 at time t0 stores v with expiry
\* t0 + t; while that entry is not deleted, cleared or overwritten, get(k)
\* returns v at every now < t0 + t and none at every now > t0 + t, and no
\* other call (a sweep included) takes the entry away before its expiry
C5_TtlGet ==
    [][/\ (last'.op = "set" /\ last'.ret /\ last'.ttl # Undefined
                /\ last'.ttl[1] > 0) =>
            /\ MapHas(store', last'.key)
            /\ MapGet(store', last'.key).value = last'.value
            /\ MapGet(store', last'.key).expiresAt = Some(now + last'.ttl[1])
       /\ \A k \in Keys :
            /\ (~MapHas(store, k) /\ last'.op = "get" /\ last'.key = k) =>
                    last'.ret = Null
            /\ (MapHas(store, k) /\ MapGet(store, k).expiresAt # Undefined) =>
                  LET e == MapGet(store, k)
                  IN  /\ (last'.op = "get" /\ last'.key = k) =>
                            /\ now < e.expiresAt[1] => last'.ret = e.value
                            /\ now > e.expiresAt[1] => last'.ret = Null
                      /\ (~Replaces(last', k) /\ now <= e.expiresAt[1]) =>
                            /\ MapHas(store', k)
                            /\ MapGet(store', k) = e
      ]_vars

\* C5 witness: a get has found the entry past its expiry and returned none
C5_Witness ==
    /\ last.op = "get"
    /\ last.branch = "expired"
    /\ last.ret = Null
    /\ ~MapHas(store, last.key)

\* C6: every get adds one to exactly one counter: misses for an absent key
\* (store unchanged) and for an expired one (entry removed, charge released),
\* hits otherwise (value returned, store and currentBytes unchanged)
C6_GetCounts ==
    [][last'.op = "get" =>
        LET k == last'.key IN
        IF ~MapHas(store, k)
        THEN /\ misses' = misses + 1 /\ hits' = hits
             /\ store' = store /\ currentMemoryBytes' = currentMemoryBytes
             /\ last'.ret = Null
        ELSE IF Expired(MapGet(store, k), now)
        THEN /\ misses' = misses + 1 /\ hits' = hits
             /\ store' = Without(store, k)
             /\ currentMemoryBytes' =
                    currentMemoryBytes - Charge(MapGet(store, k))
             /\ last'.ret = Null
        ELSE /\ hits' = hits + 1 /\ misses' = misses
             /\ store' = store /\ currentMemoryBytes' = currentMemoryBytes
             /\ last'.ret = MapGet(store, k).value
      ]_vars

\* C6 witness: a get has evicted an expired entry while another entry stays
C6_Witness ==
    /\ last.op = "get"
    /\ last.branch = "expired"
    /\ misses = 1
    /\ Len(store) = 1

\* C7: exists(k) on an expired entry returns false, removes the entry and
\* releases its charge; on a live entry it returns true and changes nothing;
\* it never changes hits or misses
C7_ExistsEvicts ==
    [][last'.op = "exists" =>
        LET k == last'.key IN
        /\ hits' = hits /\ misses' = misses
        /\ IF ~MapHas(store, k)
           THEN /\ ~last'.ret
                /\ store' = store /\ currentMemoryBytes' = currentMemoryBytes
           ELSE IF Expired(MapGet(store, k), now)
           THEN /\ ~last'.ret
                /\ store' = Without(store, k)
                /\ currentMemoryBytes' =
                       currentMemoryBytes - Charge(MapGet(store, k))
           ELSE /\ last'.ret
                /\ store' = store /\ currentMemoryBytes' = currentMemoryBytes
      ]_vars

\* C8: delete(k) returns true exactly when k is in the store (expired or
\* not); the entry is then removed and its charge released; otherwise nothing
\* changes; a key that is absent stays absent until a set of it, so a second
\* delete returns false; hits and misses never change
C8_Delete ==
    [][/\ last'.op = "delete" =>
            LET k == last'.key IN
            /\ last'.ret = MapHas(store, k)
            /\ hits' = hits /\ misses' = misses
            /\ ~MapHas(store', k)
            /\ store' = Without(store, k)
            /\ IF MapHas(store, k)
               THEN currentMemoryBytes' =
                        currentMemoryBytes - Charge(MapGet(store, k))
               ELSE store' = store /\ currentMemoryBytes' = currentMemoryBytes
       /\ \A k \in Keys :
            (~MapHas(store, k) /\ ~(last'.op = "set" /\ last'.key = k)) =>
                ~MapHas(store', k)
      ]_vars

\* C8 witness: a delete has removed one of two entries and returned true
C8_Witness ==
    /\ last.op = "delete"
    /\ last.ret
    /\ ~MapHas(store, last.key)
    /\ Len(store) = 1

\* C9: keys() without pattern returns the keys held in the store, each once,
\* in insertion order, as many as getStats().size; the order of the store is
\* the order of insertion: a step keeps the relative order of the keys that
\* stay and puts a key that comes in at the end
C9_KeysAll ==
    [][/\ (last'.op = "keys" /\ last'.pattern = <<>>) =>
            /\ Len(last'.ret) = getStats'.size
            /\ NoDuplicates(last'.ret)
            /\ \A i \in 1..Len(store') : last'.ret[i] = store'[i].key
       /\ \A i, j \in 1..Len(store') :
            i < j =>
                IF MapHas(store, store'[j].key)
                THEN /\ MapHas(store, store'[i].key)
                     /\ MapIndex(store, store'[i].key)
                            < MapIndex(store, store'[j].key)
                ELSE j = Len(store')
      ]_vars

\* C9 witness: keys() has listed two keys, the later-inserted one last
C9_Witness ==
    /\ last.op = "keys"
    /\ last.pattern = <<>>
    /\ last.ret = << <<"u", ":", "2">>, <<"u", ":", "1">> >>
    /\ getStats.size = 2

RECURSIVE GlobMatchHere(_, _, _, _)
\* the glob p, from position i, matches a prefix of s[j..]: '*' stands for any
\* sequence of characters, every other character for itself
GlobMatchHere(p, i, s, j) ==
    IF i > Len(p) THEN TRUE
    ELSE IF p[i] = "*"
    THEN \E n \in j..(Len(s) + 1) : GlobMatchHere(p, i + 1, s, n)
    ELSE /\ j <= Len(s)
         /\ p[i] = s[j]
         /\ GlobMatchHere(p, i + 1, s, j + 1)

\* key contains somewhere a substring matching the glob p
GlobContains(p, key) == \E j \in 1..(Len(key) + 1) : GlobMatchHere(p, 1, key, j)

RECURSIVE GlobFilter(_, _)
GlobFilter(s, p) ==
    IF s = <<>> THEN <<>>
    ELSE (IF GlobContains(p, Head(s)) THEN <<Head(s)>> ELSE <<>>)
         \o GlobFilter(Tail(s), p)

\* C10: keys(pattern) with a non-empty pattern returns, in insertion order,
\* exactly the stored keys containing a substring that matches the pattern
\* with '*' standing for any sequence of characters
C10_KeysPattern ==
    (last.op = "keys" /\ last.pattern # <<>>) =>
        last.ret = GlobFilter(MapKeys(store), last.pattern)

\* C11: clear() from any state leaves the store empty (size 0, keys() empty)
\* and currentMemoryBytes 0, and hits and misses keep the values they had
\* before the call
C11_Clear ==
    [][last'.op = "clear" =>
         /\ store' = <<>>
         /\ getStats'.size = 0
         /\ keysResult(<<>>)' = <<>>
         /\ currentMemoryBytes' = 0
         /\ hits' = hits
         /\ misses' = misses]_vars

\* a clear() has just emptied an engine that has served a hit and a miss
C11_Witness ==
    /\ last.op = "clear"
    /\ hits = 1
    /\ misses = 1
    /\ store = <<>>
    /\ currentMemoryBytes = 0

\* C12: hits and misses never decrease, and only get changes them: every
\* other call, a sweep pass and shutdown leave both counters unchanged
C12_CountersOnlyByGet ==
    [][/\ hits' >= hits
       /\ misses' >= misses
       /\ last'.op # "get" => (hits' = hits /\ misses' = misses)]_vars

\* shutdown() has run on an engine that has served a hit and a miss
C12_Witness ==
    /\ last.op = "shutdown"
    /\ hits = 1
    /\ misses = 1

\* C13: a successful set(k, v2) on a key that already holds v1 leaves
\* currentMemoryBytes at its value before the call minus the charge of
\* (k, v1) plus the charge of (k, v2), and the store with exactly one entry
\* for k, holding v2
C13_Overwrite ==
    [][(last'.op = "set" /\ last'.ret /\ MapHas(store, last'.key)) =>
         LET k == last'.key
             old == [key |-> k, value |-> MapGet(store, k).value]
             new == [key |-> k, value |-> last'.value]
         IN  /\ currentMemoryBytes' = currentMemoryBytes - Charge(old) + Charge(new)
             /\ Cardinality({ i \in 1..Len(store') : store'[i].key = k }) = 1
             /\ MapGet(store', k).value = last'.value
             /\ Len(store') = Len(store)]_vars

\* a set has just succeeded on a key that was stored, and a ttl came with it
C13_Witness ==
    /\ last.op = "set"
    /\ last.ret
    /\ last.replaced
    /\ Len(store) = 1
    /\ store[1].value = last.value
    /\ store[1].expiresAt # Undefined

\* the entries of m that are not expired at time t, in order
RECURSIVE Unexpired(_, _)
Unexpired(m, t) ==
    IF m = <<>> THEN <<>>
    ELSE (IF Expired(Head(m), t) THEN <<>> ELSE <<Head(m)>>) \o Unexpired(Tail(m), t)

\* the entries of m that are expired at time t, in order
RECURSIVE ExpiredEntries(_, _)
ExpiredEntries(m, t) ==
    IF m = <<>> THEN <<>>
    ELSE (IF Expired(Head(m), t) THEN <<Head(m)>> ELSE <<>>)
         \o ExpiredEntries(Tail(m), t)

\* C14: a sweep pass at time now removes every entry whose expiresAt is
\* defined with now > expiresAt and decreases currentMemoryBytes by the sum of
\* the removed entries' charges; every other entry stays with its value and
\* expiry, hits and misses are unchanged, and no expired entry remains
C14_Sweep ==
    [][last'.op = "cleanup" =>
         /\ store' = Unexpired(store, now)
         /\ currentMemoryBytes' =
                currentMemoryBytes - SumCharges(ExpiredEntries(store, now))
         /\ hits' = hits
         /\ misses' = misses
         /\ \A i \in 1..Len(store') : ~Expired(store'[i], now')]_vars

\* a sweep pass has just removed one expired entry and left another in place
C14_Witness ==
    /\ last.op = "cleanup"
    /\ last.cleaned = 1
    /\ Len(store) = 1
    /\ currentMemoryBytes = Charge(store[1])

\* C15: shutdown() leaves the store empty and currentMemoryBytes 0 and
\* cancels the periodic sweep: once the timer is cleared it stays cleared and
\* no sweep pass runs, and a get that follows shutdown returns none
C15_Shutdown ==
    [][/\ last'.op = "shutdown" =>
              (store' = <<>> /\ currentMemoryBytes' = 0 /\ ~cleanupInterval')
       /\ ~cleanupInterval => (~cleanupInterval' /\ last'.op # "cleanup")
       /\ (last.op = "shutdown" /\ last'.op = "get") =>
              (last'.ret = Null /\ store' = <<>>)]_vars

\* after a hit on a stored key the engine was shut down, and the get that
\* followed found nothing
C15_Witness ==
    /\ ~cleanupInterval
    /\ last.op = "get"
    /\ last.ret = Null
    /\ hits = 1
    /\ misses = 1
    /\ store = <<>>

-----------------------------------------------------------------------------
(* What the claims about the server speak of *)

\* the raw lines handed to onData on connection c, in the order of the calls
RECURSIVE RanOf(_, _)
RanOf(r, c) ==
    IF r = <<>> THEN <<>>
    ELSE (IF Head(r)[1] = c THEN <<Head(r)[2]>> ELSE <<>>) \o RanOf(Tail(r), c)

\* the text s cut at its line terminators: <<the terminated lines, the rest>>
SplitLines(s) ==
    LET F[i \in 0..Len(s)] ==
            IF i = 0 THEN << <<>>, <<>> >>
            ELSE IF s[i] = "\n"
            THEN <<Append(F[i - 1][1], F[i - 1][2]), <<>> >>
            ELSE <<F[i - 1][1], Append(F[i - 1][2], s[i])>>
    IN  F[Len(s)]

\* s without the white space at its two ends
Trimmed(s) ==
    LET solid == { i \in 1..Len(s) : s[i] \notin {" ", "\t", "\r", "\n"} }
    IN  IF solid = {} THEN <<>>
        ELSE SubSeq(s, CHOOSE i \in solid : \A j \in solid : i <= j,
                       CHOOSE i \in solid : \A j \in solid : i >= j)

\* the terminated lines of the text s, trimmed, without the empty ones
RECURSIVE NonEmptyTrimmed(_)
NonEmptyTrimmed(lines) ==
    IF lines = <<>> THEN <<>>
    ELSE (IF Trimmed(Head(lines)) = <<>> THEN <<>> ELSE <<Trimmed(Head(lines))>>)
         \o NonEmptyTrimmed(Tail(lines))

CommandLines(s) == NonEmptyTrimmed(SplitLines(s)[1])

\* the step is a call of onData, on connection RanConn' with the line RanRaw'
RanGrew == Len(ran') = Len(ran) + 1

RanConn == ran[Len(ran)][1]

RanRaw == ran[Len(ran)][2]

\* the line the step wrote last on connection c
Written(c) == out'[c][Len(out'[c])]

\* the step wrote exactly one line on connection c and nothing anywhere else
WroteOne(c) ==
    /\ Len(out'[c]) = Len(out[c]) + 1
    /\ SubSeq(out'[c], 1, Len(out[c])) = out[c]
    /\ \A d \in Conns \ {c} : out'[d] = out[d]

\* raw parses as a command record: JSON.parse returns an object
IsRecord(raw) == ~JsonParse(raw).threw /\ JsonParse(raw).value.t = "object"

\* C16: every complete non-empty line that parses as a command record gets
\* exactly one response line, carrying the id of the command, whether
\* validation fails, the validator or the dispatcher raises, dispatch
\* succeeds or the engine returns an error
C16_OneResponseWithId ==
    [][(RanGrew /\ IsRecord(RanRaw')) =>
         /\ WroteOne(RanConn')
         /\ Written(RanConn').id = JsonParse(RanRaw').value.id]_vars

\* the same for the records on which the validator does not raise
C16_OneResponseWithIdUnlessRaised ==
    [][(/\ RanGrew
        /\ IsRecord(RanRaw')
        /\ ~validateCommand(JsonParse(RanRaw').value).threw) =>
         /\ WroteOne(RanConn')
         /\ Written(RanConn').id = JsonParse(RanRaw').value.id]_vars

\* line answers the command of raw: it echoes its id, or is an error without
\* id where raw is not a JSON text or the validator raised
Answers(line, raw) ==
    IF ~JsonParse(raw).threw /\ ~validateCommand(JsonParse(raw).value).threw
    THEN line.id = CommandId(JsonParse(raw).value)
    ELSE line.id = Undefined /\ ~line.response.success

\* C17: on one connection the commands are executed in the order of their
\* lines in the byte stream and the responses are written in that order,
\* each before the next command is executed
C17_InOrder ==
    \A c \in Conns :
        LET done == RanOf(ran, c)
            lines == CommandLines(inp[c])
            banner == IF connState[c] = "awaiting" THEN 0 ELSE 1
        IN  /\ Len(done) <= Len(lines)
            /\ done = SubSeq(lines, 1, Len(done))
            /\ handler # c => Len(done) = Len(lines)
            /\ Len(out[c]) = banner + Len(done)
            /\ \A i \in 1..Len(done) : Answers(out[c][banner + i], done[i])

\* connection A sent SET then GET of the same key in one chunk; both were
\* executed in that order, and the GET was answered with the value set
C17_Witness ==
    /\ inp["A"] = <<"SET1", "\n", "GET1", "\n">>
    /\ ran = << <<"A", <<"SET1">> >>, <<"A", <<"GET1">> >> >>
    /\ Len(out["A"]) = 3
    /\ out["A"][2].id = Some(Str("s1"))
    /\ out["A"][3].id = Some(Str("g1"))
    /\ out["A"][3].response.data = Num(10)

\* C18: framing is independent of fragmentation: however the byte stream is
\* cut into chunks, the commands executed are those of the stream taken as
\* one text, one per terminated line whose trimmed content is non-empty, and
\* nothing after the last terminator is executed
C18_FragmentationIndependent ==
    (connState["A"] = "open" /\ handler = None) =>
        RanOf(ran, "A") = CommandLines(ChunkToString(inp["A"]))

\* the same for the streams in which every character is a single byte, with
\* the bytes after the last terminator left in the buffer
C18_SingleByteFraming ==
    (/\ connState["A"] = "open"
     /\ handler = None
     /\ \A i \in 1..Len(inp["A"]) : inp["A"][i] \notin {"C3", "A9"}) =>
        /\ RanOf(ran, "A") = CommandLines(ChunkToString(inp["A"]))
        /\ buffer["A"] = SplitLines(ChunkToString(inp["A"]))[2]

\* C19: a line that does not parse as a structured record gets exactly one
\* error response with no id, changes no engine state and does not close the
\* connection; the lines that follow it on the connection are still executed
\* and answered
C19_UnparsableLine ==
    [][/\ (RanGrew /\ ~IsRecord(RanRaw')) =>
              /\ WroteOne(RanConn')
              /\ Written(RanConn').id = Undefined
              /\ ~Written(RanConn').response.success
              /\ UNCHANGED <<store, hits, misses, currentMemoryBytes,
                             cleanupInterval>>
              /\ connState'[RanConn'] = "open"
              /\ buffer'[RanConn'] =
                     SubSeq(buffer[RanConn'],
                            IndexOf(buffer[RanConn'], "\n") + 1,
                            Len(buffer[RanConn']))
       /\ \A c \in Conns :
              handler' # c =>
                  /\ RanOf(ran', c) = CommandLines(inp'[c])
                  /\ Len(out'[c]) =
                         (IF connState'[c] = "awaiting" THEN 0 ELSE 1)
                         + Len(RanOf(ran', c))]_vars

\* connection A sent a line that is no JSON text and then a GET: the first
\* got an error without id, the second was executed and answered with its id
C19_Witness ==
    /\ ran = << <<"A", <<"?">> >>, <<"A", <<"GET1">> >> >>
    /\ connState["A"] = "open"
    /\ Len(out["A"]) = 3
    /\ out["A"][2].id = Undefined
    /\ ~out["A"][2].response.success
    /\ out["A"][3].id = Some(Str("g1"))
    /\ out["A"][3].response.success
    /\ misses = 1

\* the line is a banner: success, no id
IsBanner(line) == line.id = Undefined /\ line.response.success

\* the banner: an accepted connection has written exactly one banner line,
\* as its first line, and a connection not yet accepted has written nothing
BannerFirst(c) ==
    IF connState[c] = "awaiting" THEN out[c] = <<>>
    ELSE /\ Len(out[c]) >= 1
         /\ IsBanner(out[c][1])
         /\ \A i \in 2..Len(out[c]) : ~IsBanner(out[c][i])

FailsValidation(raw) ==
    /\ ~JsonParse(raw).threw
    /\ ~validateCommand(JsonParse(raw).value).threw
    /\ ~validateCommand(JsonParse(raw).value).success

\* C21: a command that fails validation never reaches the engine: no call is
\* made on it, the store, currentMemoryBytes, hits and misses are unchanged,
\* and the caller receives the validation error message
C21_RejectedNeverDispatched ==
    [][(RanGrew /\ FailsValidation(RanRaw')) =>
         /\ UNCHANGED <<store, currentMemoryBytes, hits, misses, last>>
         /\ WroteOne(RanConn')
         /\ ~Written(RanConn').response.success
         /\ Written(RanConn').response.error =
                validateCommand(JsonParse(RanRaw').value).error]_vars

\* after a SET was stored, a GET with an empty key was sent: it was answered
\* with the key error, and the engine has seen no call since the SET
C21_Witness ==
    /\ Len(ran) = 2
    /\ RanRaw = <<"NOKEY">>
    /\ Len(store) = 1
    /\ last.op = "set"
    /\ misses = 0
    /\ ~out["A"][3].response.success
    /\ out["A"][3].response.error.text = "Key must be between 1 and 5000 characters"

\* validation is a failure carrying this error text
RejectedWith(validation, text) ==
    /\ ~validation.threw
    /\ ~validation.success
    /\ validation.error.text = text

\* the validator has been applied to a command that is not null
Validated == last.op = "validateCommand" /\ last.command.t # "null"

\* the command's id or type is absent or not a string
NoStringIdAndType(command) ==
    \/ command.t # "object"
    \/ ~IsString(command.id)
    \/ ~IsString(command.type)

\* C22: the validator rejects with "Command must include an id and type"
\* every command whose id or type is absent or not a string, whatever its key
\* and ttl are, and no command whose id and type are both strings
C22_IdAndTypeFirst ==
    Validated =>
        (NoStringIdAndType(last.command) <=>
             RejectedWith(last.validation, "Command must include an id and type"))

\* a command with a numeric id, an empty key and a string ttl was rejected for
\* its id
C22_Witness ==
    /\ Validated
    /\ last.command.t = "object"
    /\ last.command.id = Some(Num(7))
    /\ IsString(last.command.type)
    /\ last.command.key = Some(Str(<<>>))
    /\ last.command.ttl = Some(Str(<<"1">>))
    /\ RejectedWith(last.validation, "Command must include an id and type")

\* the validator has been applied to a command with string id and type that
\* carries a key field
ValidatedWithKey ==
    /\ Validated
    /\ ~NoStringIdAndType(last.command)
    /\ last.command.key # Undefined

\* the key has a length, and it is between 1 and 5000
KeyLengthInRange(key) ==
    HasLength(key) /\ Length(key) >= 1 /\ Length(key) <= 5000

\* validation went past the key check: it succeeded, or failed on the ttl
PassedKeyCheck(validation) ==
    /\ ~validation.threw
    /\ (validation.success \/ validation.error.text = "TTL must be a number")

\* C23: for every command that carries a key field (and has string id and
\* type), validation succeeds on the key only if the key's length is between
\* 1 and 5000; a key of length 0 or 5001 is rejected with "Key must be
\* between 1 and 5000 characters", a key of length 1 or 5000 is accepted
C23_KeyLength ==
    ValidatedWithKey =>
        /\ PassedKeyCheck(last.validation) =>
               KeyLengthInRange(last.command.key[1])
        /\ KeyLengthInRange(last.command.key[1]) =>
               PassedKeyCheck(last.validation)
        /\ (HasLength(last.command.key[1])
               /\ Length(last.command.key[1]) \in {0, 5001}) =>
               RejectedWith(last.validation,
                            "Key must be between 1 and 5000 characters")

\* the same for the keys that are strings: lengths 0 and 5001 are rejected
\* with the key error, lengths 1 and 5000 pass
C23_StringKeyLength ==
    (ValidatedWithKey /\ last.command.key[1].t = "string") =>
        IF KeyLengthInRange(last.command.key[1])
        THEN PassedKeyCheck(last.validation)
        ELSE RejectedWith(last.validation,
                          "Key must be between 1 and 5000 characters")

\* the validator has been applied to a command that gets as far as the ttl
\* check: id and type are strings, and the key is absent or passes its check
ValidatedUpToTtl ==
    /\ Validated
    /\ ~NoStringIdAndType(last.command)
    /\ \/ last.command.key = Undefined
       \/ /\ last.command.key[1].t # "null"
          /\ HasLength(last.command.key[1]) =>
                 KeyLengthInRange(last.command.key[1])

C25_KeysAreNonEmptyStrings ==
    \A i \in 1..Len(store) :
        /\ store[i].key # UndefinedKey
        /\ Len(store[i].key) >= 1
        /\ Len(store[i].key) <= 5000

\* the same over the wire commands that carry a string key
C25_KeysOfKeyedCommands ==
    (\A i \in 1..Len(ran) : ran[i][2] \notin {<<"SETNK">>, <<"GETNK">>}) =>
        C25_KeysAreNonEmptyStrings

\* the command types that processCommand knows
CommandTypes == {"SET", "GET", "DELETE", "EXISTS", "KEYS", "CLEAR", "STATS", "PING"}

\* raw parses to a command that passes validation, so that the step hands it
\* to processCommand
Dispatched(raw) ==
    /\ ~JsonParse(raw).threw
    /\ ~validateCommand(JsonParse(raw).value).threw
    /\ validateCommand(JsonParse(raw).value).success

\* the type of the command that raw parses to
TypeOf(raw) == JsonParse(raw).value.type[1].s

\* C26: processCommand with a type outside the eight known ones returns the
\* error "Unknown command"; PING returns success with "PONG"; STATS returns
\* success with the stats object; none of the three changes the store,
\* currentMemoryBytes, hits, misses or the sweep timer
C26_UnknownPingStats ==
    [][(RanGrew /\ Dispatched(RanRaw')
           /\ TypeOf(RanRaw') \notin (CommandTypes \ {"PING", "STATS"})) =>
         /\ UNCHANGED <<store, currentMemoryBytes, hits, misses,
                        cleanupInterval>>
         /\ WroteOne(RanConn')
         /\ IF TypeOf(RanRaw') = "PING"
            THEN /\ Written(RanConn').response.success
                 /\ Written(RanConn').response.data = Str("PONG")
            ELSE IF TypeOf(RanRaw') = "STATS"
            THEN /\ Written(RanConn').response.success
                 /\ Written(RanConn').response.data = getStats
                 /\ Written(RanConn').response.data.size = Len(store)
            ELSE /\ ~Written(RanConn').response.success
                 /\ Written(RanConn').response.error.text = "Unknown command"]_vars

\* with one entry stored, a command of type FOO was answered "Unknown
\* command" and the entry is still there
C26_Witness ==
    /\ Len(ran) = 2
    /\ RanRaw = <<"FOO">>
    /\ Len(store) = 1
    /\ currentMemoryBytes > 0
    /\ out["A"][3].response.error.text = "Unknown command"

\* with one entry stored, PING was answered "PONG"
C26_WitnessPing ==
    /\ Len(ran) = 2
    /\ RanRaw = <<"PING">>
    /\ Len(store) = 1
    /\ out["A"][3].response.data = Str("PONG")

\* with one entry stored, STATS was answered with size 1
C26_WitnessStats ==
    /\ Len(ran) = 2
    /\ RanRaw = <<"STATS">>
    /\ Len(store) = 1
    /\ out["A"][3].response.data.size = 1

\* the step dispatches a command of one of these types on the key
Dispatches(types, key) ==
    /\ RanGrew
    /\ Dispatched(RanRaw')
    /\ TypeOf(RanRaw') \in types
    /\ KeyArg(JsonParse(RanRaw').value) = key

\* what the memory account holds beyond the charges of the entries stored
Surplus(m, bytes) == bytes - SumCharges(m)

Closes(c) == connState[c] = "open" /\ connState'[c] = "closed"

\* C28: closing a connection changes nothing outside it: the store,
\* currentMemoryBytes, hits and misses are unchanged and the sweep timer stays
\* armed; every other connection keeps its state, its receive buffer and the
\* lines written to it; and whatever has been closed, every open connection
\* whose callback is not running has had all its lines executed and answered
C28_CloseIsLocal ==
    [][/\ \A c \in Conns :
              Closes(c) =>
                  /\ UNCHANGED <<store, currentMemoryBytes, hits, misses,
                                 cleanupInterval, ran, server>>
                  /\ \A d \in Conns \ {c} :
                         /\ connState'[d] = connState[d]
                         /\ buffer'[d] = buffer[d]
                         /\ out'[d] = out[d]
       /\ \A d \in Conns :
              (connState'[d] = "open" /\ handler' # d) =>
                  /\ RanOf(ran', d) = CommandLines(inp'[d])
                  /\ Len(out'[d]) = 1 + Len(RanOf(ran', d))
                  /\ buffer'[d] = SplitLines(inp'[d])[2]]_vars

\* connection A has closed in the middle of a line while connection B holds
\* the start of a line and the store holds an entry
C28_Witness ==
    /\ connState["A"] = "closed"
    /\ inp["A"] = <<"SET1">>
    /\ buffer["A"] = <<>>
    /\ connState["B"] = "open"
    /\ buffer["B"] = <<"GET1">>
    /\ Len(store) = 1
    /\ cleanupInterval

\* after connection A has closed in the middle of a line, connection B has
\* had two commands executed and answered
C28_WitnessServed ==
    /\ connState["A"] = "closed"
    /\ inp["A"] = <<"SET1">>
    /\ RanOf(ran, "B") = << <<"SET1">>, <<"GET1">> >>
    /\ Len(out["B"]) = 3
    /\ out["B"][3].response.data = Num(10)

\* C29: once stop() has been called no new connection is accepted; the engine
\* is shut down (timer cancelled, store cleared) only when every connection
\* has closed, and by nothing but the callback of stop(); and stop() has
\* resolved only when the engine is shut down
C29_Stop ==
    [][/\ server # "listening" =>
              \A c \in Conns :
                  connState[c] = "awaiting" => connState'[c] = "awaiting"
       /\ (cleanupInterval /\ ~cleanupInterval') =>
              /\ server = "closing"
              /\ \A c \in Conns : connState[c] # "open"
              /\ store' = <<>>
              /\ currentMemoryBytes' = 0
       /\ ~cleanupInterval' => \A c \in Conns : connState'[c] # "open"
       /\ server' = "stopped" =>
              /\ ~cleanupInterval'
              /\ store' = <<>>
              /\ currentMemoryBytes' = 0
       /\ server = "stopped" => server' = "stopped"]_vars

\* stop() has resolved: connection A, which had stored an entry, has closed,
\* connection B was never accepted, and the engine is shut down and empty
C29_Witness ==
    /\ server = "stopped"
    /\ connState["A"] = "closed"
    /\ connState["B"] = "awaiting"
    /\ ran = << <<"A", <<"SETT">> >> >>
    /\ out["A"][2].response.success
    /\ store = <<>>
    /\ ~cleanupInterval

\* stop() has been called and has not resolved: connection A is still open,
\* the entry it stored after the call is in the store and the timer is armed
C29_WitnessClosing ==
    /\ server = "closing"
    /\ connState["A"] = "open"
    /\ connState["B"] = "awaiting"
    /\ Len(store) = 1
    /\ cleanupInterval

\* C30: getStats() reports the state exactly: size is the number of entries,
\* hits and misses are the counters, memoryUsageBytes is currentMemoryBytes,
\* maxMemoryBytes is the budget, hitRate is hits/(hits+misses) when a get has
\* occurred and 0 when none has; and the call changes nothing
C30_GetStats ==
    [][last'.op = "getStats" =>
         /\ UNCHANGED <<store, hits, misses, currentMemoryBytes,
                        cleanupInterval, now>>
         /\ last'.ret.size = Len(store)
         /\ last'.ret.hits = hits
         /\ last'.ret.misses = misses
         /\ last'.ret.memoryUsageBytes = currentMemoryBytes
         /\ last'.ret.maxMemoryBytes = MaxBytes
         /\ last'.ret.hitRate[2] > 0
         /\ IF hits + misses > 0
            THEN last'.ret.hitRate[1] * (hits + misses) =
                     hits * last'.ret.hitRate[2]
            ELSE last'.ret.hitRate[1] = 0]_vars

\* with one entry stored, two hits and one miss counted, getStats reported
\* size 1 and the hit rate 2/3
C30_Witness ==
    /\ last.op = "getStats"
    /\ Len(store) = 1
    /\ hits = 2
    /\ misses = 1
    /\ last.ret.size = 1
    /\ last.ret.hitRate[1] * 3 = 2 * last.ret.hitRate[2]
    /\ last.ret.memoryUsageBytes = currentMemoryBytes
    /\ currentMemoryBytes > 0

\* with no get counted, getStats reported the hit rate 0
C30_WitnessNoGet ==
    /\ last.op = "getStats"
    /\ hits = 0
    /\ misses = 0
    /\ last.ret.hitRate[1] = 0

\* C31: a successful set with a ttl given stores the item with expiresAt =
\* now + ttl, for every numeric ttl (0 and negative included), and a set with
\* no ttl stores the item with no expiration
C31_ExpiresAt ==
    [][(last'.op = "set" /\ last'.ret) =>
         /\ MapHas(store', last'.key)
         /\ MapGet(store', last'.key).value = last'.value
         /\ MapGet(store', last'.key).expiresAt =
                IF last'.ttl = Undefined THEN Undefined
                ELSE Some(now + last'.ttl[1])]_vars

\* the same for the ttls other than 0: expiresAt = now + ttl for a positive
\* and for a negative ttl, no expiration for no ttl
C31_ExpiresAtNonZeroTtl ==
    [][(last'.op = "set" /\ last'.ret /\ last'.ttl # Some(0)) =>
         /\ MapHas(store', last'.key)
         /\ MapGet(store', last'.key).expiresAt =
                IF last'.ttl = Undefined THEN Undefined
                ELSE Some(now + last'.ttl[1])]_vars

\* C32: the expiry boundary is strict and the same in get, exists and the
\* sweep: at now = expiresAt get returns the value and counts a hit, exists
\* returns true and a sweep pass keeps the item; at now > expiresAt get
\* returns none, exists returns false and a sweep pass removes the item
C32_StrictBoundary ==
    [][\A k \in Keys :
         (MapHas(store, k) /\ MapGet(store, k).expiresAt # Undefined) =>
             LET e == MapGet(store, k)
                 past == now > e.expiresAt[1]
             IN  /\ (last'.op = "get" /\ last'.key = k) =>
                        IF past
                        THEN last'.ret = Null /\ ~MapHas(store', k)
                        ELSE /\ last'.ret = e.value
                             /\ hits' = hits + 1
                             /\ MapHas(store', k)
                 /\ (last'.op = "exists" /\ last'.key = k) =>
                        IF past
                        THEN last'.ret = FALSE /\ ~MapHas(store', k)
                        ELSE last'.ret = TRUE /\ MapHas(store', k)
                 /\ last'.op = "cleanup" =>
                        IF past
                        THEN ~MapHas(store', k)
                        ELSE MapHas(store', k) /\ MapGet(store', k) = e]_vars

\* at the exact expiry instant a get has returned the value and counted a hit
C32_Witness ==
    /\ last.op = "get"
    /\ last.branch = "hit"
    /\ MapHas(store, last.key)
    /\ MapGet(store, last.key).expiresAt = Some(now)
    /\ hits = 1

\* at the exact expiry instant exists has returned true
C32_WitnessExists ==
    /\ last.op = "exists"
    /\ last.ret
    /\ MapGet(store, last.key).expiresAt = Some(now)

\* at the exact expiry instant of an entry a sweep pass has run and kept it
C32_WitnessSweep ==
    /\ last.op = "cleanup"
    /\ last.cleaned = 0
    /\ Len(store) >= 1
    /\ store[1].expiresAt = Some(now)

\* one instant past the expiry of an entry a sweep pass has removed it
C32_WitnessSwept ==
    /\ last.op = "cleanup"
    /\ last.cleaned = 1
    /\ store = <<>>
    /\ now = StartTime + 2

\* the same where negative ttls are set too, for every expiry other than the
\* timestamp 0, which the truthiness test of the three paths reads as no
\* expiry
C32_StrictBoundaryNegativeTtl ==
    [][(MapHas(store, <<"u", ":", "1">>)
           /\ MapGet(store, <<"u", ":", "1">>).expiresAt # Undefined
           /\ MapGet(store, <<"u", ":", "1">>).expiresAt # Some(0)
           /\ last' # last) =>
          LET e == MapGet(store, <<"u", ":", "1">>)
              past == now > e.expiresAt[1]
          IN  /\ last'.op = "get" => (last'.ret = Null <=> past)
              /\ last'.op = "exists" => (last'.ret = FALSE <=> past)
              /\ last'.op = "cleanup" =>
                     (~MapHas(store', <<"u", ":", "1">>) <=> past)]_vars

\* the size of the candidate of set(key, value)
CandidateSize(key, value) == Charge([key |-> key, value |-> value])

\* C33: admission of set(k, v) is decided by currentBytes + candidateSize >
\* maxBytes alone, with currentBytes as it is before the call and no credit
\* for the entry that k already has: the set is rejected exactly when the
\* inequality holds, and a candidate that brings the sum to exactly maxBytes
\* is admitted
C33_Admission ==
    [][(last'.op = "set" /\ last' # last) =>
         (last'.ret = FALSE <=>
              currentMemoryBytes + CandidateSize(last'.key, last'.value)
                  > MaxBytes)]_vars

\* a set has been admitted that filled the budget to the last byte
C33_Witness ==
    /\ last.op = "set"
    /\ last.ret
    /\ ~last.replaced
    /\ Len(store) = 2
    /\ currentMemoryBytes = MaxBytes

\* a set on a key already stored has been rejected although the new value is
\* no larger than the old one
C33_WitnessNoCredit ==
    /\ last.op = "set"
    /\ ~last.ret
    /\ MapHas(store, last.key)
    /\ getByteSize(last.value) <= getByteSize(MapGet(store, last.key).value)
    /\ currentMemoryBytes <= MaxBytes

\* the elements of the sequence s
Elements(s) == { s[i] : i \in 1..Len(s) }

\* C34: keys, with or without a pattern, checks no expiry and mutates
\* nothing: an entry whose expiry has passed and which is still in the store
\* is listed (when the pattern, if any, matches its key), and the store,
\* currentMemoryBytes, hits and misses are unchanged by the call
C34_KeysIgnoresExpiry ==
    [][(last'.op = "keys" /\ last' # last) =>
         /\ UNCHANGED <<store, currentMemoryBytes, hits, misses>>
         /\ \A i \in 1..Len(store) :
                (/\ Expired(store[i], now)
                 /\ (last'.pattern = <<>>
                        \/ GlobContains(last'.pattern, store[i].key))) =>
                    store[i].key \in Elements(last'.ret)]_vars

\* keys() without pattern has listed a key whose entry is expired and still
\* in the store
C34_Witness ==
    /\ last.op = "keys"
    /\ last.pattern = <<>>
    /\ Len(store) = 2
    /\ Expired(store[1], now)
    /\ ~Expired(store[2], now)
    /\ last.ret = <<store[1].key, store[2].key>>
    /\ currentMemoryBytes > 0

\* keys('u:*') has listed a key whose entry is expired and still in the store
C34_WitnessPattern ==
    /\ last.op = "keys"
    /\ last.pattern = <<"u", ":", "*">>
    /\ Len(store) = 1
    /\ Expired(store[1], now)
    /\ last.ret = <<store[1].key>>

\* C35: nothing is evicted to make room: a set on k, accepted or rejected,
\* leaves the entry of every other key as it is, and an entry leaves the store
\* only by delete of its key, by a get or exists of its key after its expiry,
\* by a sweep pass after its expiry, by clear or by shutdown
C35_NoEviction ==
    [][\A i \in 1..Len(store) :
         LET k == store[i].key
         IN  /\ (last'.op = "set" /\ last' # last /\ last'.key # k) =>
                    /\ MapHas(store', k)
                    /\ MapGet(store', k) = store[i]
             /\ ~MapHas(store', k) =>
                    \/ last'.op = "delete" /\ last'.key = k
                    \/ /\ last'.op \in {"get", "exists"}
                       /\ last'.key = k
                       /\ Expired(store[i], now)
                    \/ last'.op = "cleanup" /\ Expired(store[i], now)
                    \/ last'.op \in {"clear", "shutdown"}]_vars

\* a set has been rejected with the budget used to the last byte, and the two
\* entries stored before it are both still there
C35_Witness ==
    /\ last.op = "set"
    /\ ~last.ret
    /\ Len(store) = 2
    /\ currentMemoryBytes = MaxBytes
    /\ \A k \in Keys : MapHas(store, k)

\* C36: a failure raised while a command is dispatched (a KEYS command whose
\* pattern does not compile) is caught: the caller gets one error response
\* with the failure's message and the command's id, the connection stays
\* open, and the store, currentMemoryBytes, hits and misses are as before
C36_DispatchFailureCaught ==
    [][(RanGrew /\ Dispatched(RanRaw') /\ TypeOf(RanRaw') = "KEYS"
           /\ JsonParse(RanRaw').value.pattern # Undefined
           /\ ~RegExpCompiles(
                  ReplaceStars(JsonParse(RanRaw').value.pattern[1].s))) =>
         /\ WroteOne(RanConn')
         /\ ~Written(RanConn').response.success
         /\ Written(RanConn').response.error.text = "Invalid regular expression"
         /\ Written(RanConn').id = JsonParse(RanRaw').value.id
         /\ Written(RanConn').id # Undefined
         /\ connState'[RanConn'] = "open"
         /\ UNCHANGED <<store, currentMemoryBytes, hits, misses,
                        cleanupInterval>>]_vars

\* with one entry stored, KEYS with the pattern ( was answered with the error
\* and its id, and the connection is open with the entry still stored
C36_Witness ==
    /\ Len(ran) = 2
    /\ RanRaw = <<"KEYSBAD">>
    /\ last.op = "keysThrew"
    /\ Len(store) = 1
    /\ connState["A"] = "open"
    /\ out["A"][3].id = Some(Str("k2"))
    /\ ~out["A"][3].response.success
    /\ out["A"][3].response.error.text = "Invalid regular expression"

\* C37: insertion order is by first insertion: a successful set on a stored
\* key replaces its value and expiry in place, the keys of the store staying
\* in the same order, and a successful set on a key that is not stored (never
\* set, or removed since) puts it at the end; keys() lists that order
C37_InsertionOrder ==
    [][/\ (last' # last /\ last'.op = "set" /\ last'.ret) =>
             LET e == [key |-> last'.key, value |-> last'.value,
                       expiresAt |-> ExpiresAt(last'.ttl, now)]
             IN  IF MapHas(store, last'.key)
                 THEN /\ MapKeys(store') = MapKeys(store)
                      /\ store' = [store EXCEPT
                                     ![MapIndex(store, last'.key)] = e]
                 ELSE store' = Append(store, e)
        /\ (last' # last /\ last'.op = "keys" /\ last'.pattern = <<>>) =>
             last'.ret = MapKeys(store)]_vars

\* with u:1 and u:2 stored in that order, a set of u:1 succeeded as an
\* overwrite and u:1 is still listed first, with the new value
C37_Witness ==
    /\ last.op = "set"
    /\ last.ret
    /\ last.replaced
    /\ last.key = <<"u", ":", "1">>
    /\ MapKeys(store) = << <<"u", ":", "1">>, <<"u", ":", "2">> >>
    /\ store[1].value = last.value
    /\ store[2].value # last.value

\* u:1 was stored (a get hit it), was removed, and the set that stored it
\* again found it absent and put it after u:2
C37_WitnessReinserted ==
    /\ last.op = "set"
    /\ last.ret
    /\ ~last.replaced
    /\ last.key = <<"u", ":", "1">>
    /\ hits >= 1
    /\ MapKeys(store) = << <<"u", ":", "2">>, <<"u", ":", "1">> >>

\* C38: receive buffers are private to their connection: bytes received on
\* one connection change no other connection's buffer and start no other
\* connection's callback; the lines executed for a connection are those of
\* its own bytes, so a terminator on one connection never completes a line
\* begun on another; and each response is written only to the connection
\* whose line produced it
C38_PrivateBuffers ==
    [][/\ \A c \in Conns :
              inp'[c] # inp[c] =>
                  /\ handler' \in {c, None}
                  /\ \A d \in Conns \ {c} :
                         buffer'[d] = buffer[d] /\ out'[d] = out[d]
       /\ \A d \in Conns :
              LET done == RanOf(ran', d)
                  lines == CommandLines(inp'[d])
              IN  /\ Len(done) <= Len(lines)
                  /\ done = SubSeq(lines, 1, Len(done))
                  /\ handler' # d => done = lines
       /\ RanGrew => WroteOne(RanConn')
       /\ ~RanGrew => out' = out \/ \E c \in Conns : connState'[c] # connState[c]
      ]_vars

\* connection A holds a partial line and a terminator has arrived on
\* connection B: no command was executed and nothing but the banners was
\* written
C38_Witness ==
    /\ inp["A"] = <<"SET1">>
    /\ inp["B"] = <<"\n">>
    /\ handler = None
    /\ buffer["A"] = <<"SET1">>
    /\ buffer["B"] = <<>>
    /\ ran = <<>>
    /\ Len(out["A"]) = 1
    /\ Len(out["B"]) = 1

\* after that, the terminator arrived on connection A: the command ran once,
\* for A, and only A was answered
C38_WitnessAnswered ==
    /\ inp["A"] = <<"SET1", "\n">>
    /\ inp["B"] = <<"\n">>
    /\ handler = None
    /\ ran = << <<"A", <<"SET1">> >> >>
    /\ Len(out["A"]) = 2
    /\ out["A"][2].id = Some(Str("s1"))
    /\ Len(out["B"]) = 1

\* C39: stop() never closes an open connection itself: the call leaves every
\* connection, its buffer and its output as they are, and a connection
\* closes only in a step that is not the server's; while a connection is
\* open after stop(), stop() is unresolved and the engine is live (timer
\* armed, not shut down), and a command that arrives is executed and answered
\* against it; and once every connection has closed stop() eventually
\* resolves with the engine shut down
C39_StopWaits ==
    /\ [][/\ (server = "listening" /\ server' = "closing") =>
                 /\ UNCHANGED <<connState, buffer, out, ran>>
                 /\ UNCHANGED <<store, currentMemoryBytes, hits, misses,
                                cleanupInterval>>
          /\ \A c \in Conns : Closes(c) => server' = server
          /\ (\E c \in Conns : connState'[c] = "open") =>
                 /\ server' # "stopped"
                 /\ cleanupInterval'
                 /\ last'.op # "shutdown"
          /\ (server = "closing" /\ RanGrew) =>
                 /\ connState[RanConn'] = "open"
                 /\ WroteOne(RanConn')
                 /\ (last'.op = "set" /\ last'.ret) =>
                        MapHas(store', last'.key)
          /\ (server # "stopped" /\ server' = "stopped") =>
                 /\ \A c \in Conns : connState[c] # "open"
                 /\ ~cleanupInterval'
                 /\ store' = <<>>]_vars
    /\ (server = "closing" /\ \A c \in Conns : connState[c] # "open")
          ~> (server = "stopped" /\ ~cleanupInterval /\ store = <<>>)

\* stop() has been called with connection A open; a line has since arrived
\* on A and its callback is running, the engine's timer armed and stop()
\* unresolved
C39_Witness ==
    /\ server = "closing"
    /\ connState["A"] = "open"
    /\ handler = "A"
    /\ buffer["A"] = <<"SETT", "\n">>
    /\ ran = <<>>
    /\ cleanupInterval

\* both connections were open when stop() was called or before; both have
\* closed and stop() has resolved, the engine shut down
C39_WitnessResolved ==
    /\ server = "stopped"
    /\ connState["A"] = "closed"
    /\ connState["B"] = "closed"
    /\ Len(ran) = 2
    /\ last.op = "shutdown"
    /\ store = <<>>
    /\ ~cleanupInterval

\* C40: currentMemoryBytes never under-counts: in every reachable state it is
\* at least the sum of the charges of the stored entries, and whenever
\* charges are released (delete, lazy expiry in get, sweep, overwrite) the
\* result is the plain difference, which is not negative: the clamp at 0 of
\* updateMemoryUsage does not decide it
C40_NeverUnderCounts ==
    /\ [](currentMemoryBytes >= SumCharges(store))
    /\ [][/\ (last' # last /\ last'.op \in {"delete", "get", "cleanup"}) =>
                 /\ currentMemoryBytes' =
                        currentMemoryBytes
                            - (SumCharges(store) - SumCharges(store'))
                 /\ currentMemoryBytes' >= 0
          /\ (last' # last /\ last'.op = "set" /\ last'.ret
                 /\ MapHas(store, last'.key)) =>
                 /\ currentMemoryBytes - Charge(MapGet(store, last'.key)) >= 0
                 /\ currentMemoryBytes' =
                        currentMemoryBytes - Charge(MapGet(store, last'.key))
                            + Charge(MapGet(store', last'.key))]_vars

\* a delete has released the charge of the one stored entry while the charge
\* of an entry that exists dropped earlier is still counted
C40_Witness ==
    /\ last.op = "delete"
    /\ last.ret
    /\ store = <<>>
    /\ currentMemoryBytes > 0

\* a delete has released the last charge and the account is exactly 0
C40_WitnessToZero ==
    /\ last.op = "delete"
    /\ last.ret
    /\ store = <<>>
    /\ currentMemoryBytes = 0

\* a sweep pass has released the charge of an expired entry and left the
\* charge of the other
C40_WitnessSweep ==
    /\ last.op = "cleanup"
    /\ last.cleaned = 1
    /\ Len(store) = 1
    /\ currentMemoryBytes = Charge(store[1])

\* an overwrite has released the old charge and added the new one
C40_WitnessOverwrite ==
    /\ last.op = "set"
    /\ last.ret
    /\ last.replaced
    /\ Len(store) = 1
    /\ currentMemoryBytes = Charge(store[1])

=============================================================================
